---- MODULE Spec2Model ----
(***************************************************************************)
(* X Bookmark Daily Digest: the processed-ID cache, the retry decorator,   *)
(* the chunk summarizer and the run_digest pipeline, as state machines.    *)
(*                                                                         *)
(* Strings are sequences of one-character strings (<<"1","0">> is "10"),   *)
(* so that int(), sorting keys and slices are computed, not assumed.       *)
(***************************************************************************)
EXTENDS Integers, Sequences, FiniteSets, TLC

VARIABLES
    files,        \* path -> content of the processed-ID cache file at that path
    cacheTrace,   \* the last save_processed_ids / filter_new_bookmarks call and its result
    retry,        \* the with_retry wrapper in progress: its arguments, position and history
    summ,         \* build_enriched_bookmarks in progress: its arguments, position and locals
    effects,      \* the external-call failures that took effect: call site, attempts, sleeps
    run           \* run_digest in progress: its arguments, position, locals and outcome

cacheVars == <<files, cacheTrace>>
vars == <<files, cacheTrace, retry, summ, effects, run>>

(***************************************************************************)
(* Bounds of the model.                                                    *)
(***************************************************************************)
\* save_processed_ids keeps [:100000]; the model runs the same slice with a small
\* ceiling so that a union of a few identifiers exceeds it.
MAX_PROCESSED_IDS == 2
\* save_processed_ids calls of one behaviour of SpecCache
MaxSaves == 2
\* records of one export list handed to filter_new_bookmarks
MaxRecords == 2
\* the largest max_retries a with_retry wrapper is given (the source gives 3 and 2)
MaxRetries == 3
\* tokens of a Completion Service response text enumerated without restriction
MaxTextLen == 3
\* entries of a JSON array of summaries in a response text
MaxEntries == 2
\* spaces before the text of a bookmarks file
MaxLeadingWs == 1
\* records handed to categorize_and_summarize: two full chunks and one more
MaxChunkRecords == 41
\* records of a digest with mixed tiers: three let one category outnumber another
MaxDigestRecords == 3
\* high-tier records of a digest: 91 give 97 blocks, three messages
MaxHighRecords == 91
\* normal-tier records of one category: 18 lines of 177 characters pass 3000
MaxCategoryRecords == 18
\* consecutive runs of run_digest on one file system
MaxRuns == 3
\* max_len values handed to _truncate
MaxTruncateLen == 12

(***************************************************************************)
(* Generic helpers.                                                        *)
(***************************************************************************)
Min(a, b) == IF a < b THEN a ELSE b
Max(a, b) == IF a > b THEN a ELSE b
Range(s) == {s[i] : i \in 1..Len(s)}
\* lst[:n] of Python, n of either sign
PySlicePrefix(s, n) ==
    IF n >= 0 THEN SubSeq(s, 1, Min(n, Len(s)))
    ELSE SubSeq(s, 1, Max(Len(s) + n, 0))
\* the sequences of length <= n without repetition over S
RECURSIVE InjSeqs(_, _)
InjSeqs(S, n) ==
    IF n = 0 \/ S = {} THEN {<<>>}
    ELSE {<<>>} \cup UNION {{<<x>> \o t : t \in InjSeqs(S \ {x}, n - 1)} : x \in S}

(***************************************************************************)
(* Identifiers.  An identifier is an opaque string; the export formats     *)
(* put no constraint on it (str(item.get("id")) in _parse_json_item).      *)
(***************************************************************************)
Digits == {"0", "1", "2", "3", "4", "5", "6", "7", "8", "9"}
DigitVal(c) ==
    CASE c = "0" -> 0 [] c = "1" -> 1 [] c = "2" -> 2 [] c = "3" -> 3 [] c = "4" -> 4
      [] c = "5" -> 5 [] c = "6" -> 6 [] c = "7" -> 7 [] c = "8" -> 8 [] c = "9" -> 9

ID_9 == <<"9">>
ID_10 == <<"1", "0">>
ID_1 == <<"1">>
ID_a == <<"a">>
ID_0 == <<"0">>
ID_m1 == <<"-", "1">>
IdUniverse == {ID_9, ID_10, ID_1, ID_a, ID_0, ID_m1}

\* int(x) of Python on a string of the model's alphabet (digits, sign, letters):
\* an optional sign followed by one or more digits, ValueError otherwise.
RECURSIVE DigitsValue(_)
DigitsValue(s) ==
    IF s = <<>> THEN 0 ELSE 10 * DigitsValue(SubSeq(s, 1, Len(s) - 1)) + DigitVal(s[Len(s)])
int(x) ==
    LET signed == Len(x) > 0 /\ x[1] \in {"-", "+"}
        body == IF signed THEN Tail(x) ELSE x
    IN  IF Len(body) > 0 /\ \A i \in 1..Len(body) : body[i] \in Digits
        THEN [exc |-> "none",
              v |-> IF signed /\ x[1] = "-" THEN 0 - DigitsValue(body) ELSE DigitsValue(body)]
        ELSE [exc |-> "ValueError", v |-> 0]

Bookmark(id, text, like_count) == [id |-> id, text |-> text, like_count |-> like_count]

(***************************************************************************)
(* Processed-ID cache (bookmark_loader.py).                                *)
(***************************************************************************)
PROCESSED_IDS_FILE == "processed_ids.json"
NO_CACHE_FILE == "__no_cache__"
Paths == {PROCESSED_IDS_FILE, NO_CACHE_FILE}

FileMissing == [kind |-> "missing", ids |-> <<>>]
\* content json.load rejects, or whose top-level value has no .get
FileCorrupt == [kind |-> "corrupt", ids |-> <<>>]
FileIds(lst) == [kind |-> "ids", ids |-> lst]
\* a JSON object without an "ids" key: data.get("ids", []) is []
FileNoIdsKey == [kind |-> "noIdsKey", ids |-> <<>>]
\* {"ids": null} or {"ids": 5}: set(...) raises TypeError
FileIdsNull == [kind |-> "idsNull", ids |-> <<>>]
\* {"ids": "<str>"}: the "ids" value is a string, here the sequence of its characters
FileIdsString(str) == [kind |-> "idsString", ids |-> str]
\* {"ids": {k: ...}}: the "ids" value is an object, here the list of its keys
FileIdsObject(keys) == [kind |-> "idsObject", ids |-> keys]

\* what the claim about tolerance expects of load_processed_ids: {} unless "ids" is a list
load_processed_ids_lists_only(content) ==
    IF content.kind = "ids" THEN Range(content.ids) ELSE {}
load_processed_ids(content) ==
    IF content.kind = "missing" THEN {}
    ELSE IF content.kind = "corrupt" THEN {}
    ELSE IF content.kind = "idsNull" THEN {}
    ELSE IF content.kind = "idsString"
         THEN \* set(str): its characters
              {<<content.ids[i]>> : i \in 1..Len(content.ids)}
    ELSE \* set(list), set(dict), set([])
         Range(content.ids)

\* save_processed_ids._sort_key: int(x), 0 on ValueError; another exception propagates
_sort_key_no_fallback(x) == [exc |-> int(x).exc, v |-> int(x).v]
\* the order of the characters, the bug the source's comment warns of ("9" > "10")
_sort_key_lexicographic(x) == [exc |-> "none", v |-> IF x = <<>> THEN 0 ELSE
                                  IF x[1] \in Digits THEN DigitVal(x[1]) + 1 ELSE 0]
_sort_key(x) ==
    IF int(x).exc = "ValueError" THEN [exc |-> "none", v |-> 0] ELSE int(x)

\* sorted(all_ids, key=_sort_key, reverse=True): the order of equal keys is that of
\* list(existing | ids), the iteration order of a set, which the program does not fix:
\* every order of non-increasing key is a possible result.
RECURSIVE SortedDescending(_)
SortedDescending(S) ==
    IF S = {} THEN {<<>>}
    ELSE LET top == {x \in S : \A y \in S : _sort_key(x).v >= _sort_key(y).v}
         IN  UNION {{<<x>> \o t : t \in SortedDescending(S \ {x})} : x \in top}

\* save_processed_ids without the union with the file's content
save_processed_ids_no_merge(ids, content) ==
    {[exc |-> "none", content |-> FileIds(PySlicePrefix(s, MAX_PROCESSED_IDS))] :
        s \in SortedDescending(ids)}

\* The outcomes of save_processed_ids(ids, filepath) on a file holding `content`:
\* the exception that leaves it, or the content written.
save_processed_ids(ids, content) ==
    LET existing == load_processed_ids(content)
        all_ids == existing \cup ids
        raised == {_sort_key(x).exc : x \in all_ids} \ {"none"}
    IN  IF raised # {}
        THEN {[exc |-> e, content |-> content] : e \in raised}
        ELSE {[exc |-> "none", content |-> FileIds(PySlicePrefix(s, MAX_PROCESSED_IDS))] :
                 s \in SortedDescending(all_ids)}

filter_new_bookmarks_keeps_processed(bookmarks, processed_ids) ==
    SelectSeq(bookmarks, LAMBDA bm : bm.id \in processed_ids)
filter_new_bookmarks(bookmarks, processed_ids) ==
    SelectSeq(bookmarks, LAMBDA bm : bm.id \notin processed_ids)

\* no cache call made yet
NoTrace == [op |-> "none", ids |-> {}, all_ids |-> {}, beforeKind |-> "missing",
            exc |-> "none", records |-> <<>>, out |-> <<>>, saves |-> 0]

InitFiles(c) == files = [p \in Paths |-> IF p = PROCESSED_IDS_FILE THEN c ELSE FileMissing]

(***************************************************************************)
(* Retry decorator (utils.py, with_retry).  Delays are in tenths of a      *)
(* second.  An exception is [kind, attempt]: the attempt that raised it    *)
(* identifies the exception object.                                        *)
(***************************************************************************)
RECURSIVE Pow2(_)
Pow2(n) == IF n = 0 THEN 1 ELSE 2 * Pow2(n - 1)

DEFAULT_MAX_DELAY == 600
\* exceptions=(Exception,): every Exception qualifies, a BaseException such as
\* KeyboardInterrupt does not
QualifyingKinds == {"APIError", "Timeout"}
ExceptionKinds == QualifyingKinds \cup {"KeyboardInterrupt"}
\* 0.5 + random.random() * 0.5, in percent
JitterPercents == {50, 75}
NoException == [kind |-> "none", attempt |-> 0]

RetryIdle == [pc |-> "idle", max_retries |-> 0, base_delay |-> 0, jitter |-> FALSE,
              attempt |-> 0, last_exc |-> NoException, exc |-> NoException,
              result |-> "none", delay |-> 0, log |-> <<>>]

\* wrapper(*args) entered: last_exc = None, attempt = 0
with_retry(max_retries, base_delay, jitter) ==
    [RetryIdle EXCEPT !.pc = "call", !.max_retries = max_retries,
                      !.base_delay = base_delay, !.jitter = jitter]

\* One pass of the for loop up to time.sleep: func(*args) returned out.value, or raised
\* an exception of kind out.kind.
WithRetryAttempt_one_fewer(r, out, pct) ==
    LET e == [kind |-> out.kind, attempt |-> r.attempt]
        called == Append(r.log, [ev |-> "call", ok |-> out.ok, value |-> out.value, exc |-> e, delay |-> 0])
    IN  IF out.ok THEN [r EXCEPT !.pc = "returned", !.result = out.value,
                                 !.log = Append(r.log, [ev |-> "call", ok |-> TRUE, value |-> out.value,
                                                        exc |-> NoException, delay |-> 0])]
        ELSE IF r.attempt >= r.max_retries - 1
             THEN [r EXCEPT !.pc = "raised", !.last_exc = e, !.exc = e, !.log = called]
             ELSE [r EXCEPT !.pc = "sleep", !.last_exc = e, !.log = called, !.delay = 1]
WithRetryAttempt(r, out, pct) ==
    IF out.ok
    THEN \* return func(*args, **kwargs)
         [r EXCEPT !.pc = "returned", !.result = out.value,
                   !.log = Append(r.log, [ev |-> "call", ok |-> TRUE, value |-> out.value,
                                          exc |-> NoException, delay |-> 0])]
    ELSE LET e == [kind |-> out.kind, attempt |-> r.attempt]
             called == Append(r.log, [ev |-> "call", ok |-> FALSE, value |-> "none",
                                      exc |-> e, delay |-> 0])
             delay == Min(r.base_delay * Pow2(r.attempt), DEFAULT_MAX_DELAY)
         IN  IF out.kind \notin QualifyingKinds
             THEN \* not caught by "except exceptions"
                  [r EXCEPT !.pc = "raised", !.exc = e, !.log = called]
             ELSE IF r.attempt = r.max_retries
             THEN \* raise
                  [r EXCEPT !.pc = "raised", !.last_exc = e, !.exc = e, !.log = called]
             ELSE [r EXCEPT !.pc = "sleep", !.last_exc = e, !.log = called,
                            !.delay = IF r.jitter THEN (delay * pct) \div 100 ELSE delay]

\* time.sleep(delay), then the next value of range(max_retries + 1)
WithRetrySleep(r) ==
    [r EXCEPT !.pc = "call", !.attempt = r.attempt + 1, !.delay = 0,
              !.log = Append(r.log, [ev |-> "sleep", ok |-> FALSE, value |-> "none",
                                     exc |-> NoException, delay |-> r.delay])]

\* what a wrapped function does at one call: return a value or raise
Returned(v) == [ok |-> TRUE, value |-> v, kind |-> "none"]
Raised(k) == [ok |-> FALSE, value |-> "none", kind |-> k]

(***************************************************************************)
(* Batch summarization and assembly (summarizer.py).                       *)
(*                                                                         *)
(* A response text is a sequence of tokens separated by white space: the   *)
(* code fence (``` with or without the json tag), the brackets, the comma, *)
(* a prose word, a number literal, and the object                          *)
(* {"id": ..., "category": ..., "summary": ...} of one identifier.         *)
(***************************************************************************)
CHUNK_SIZE == 20
SUMMARY_FALLBACK_LEN == 80
ASSEMBLY_FALLBACK_LEN == 100
\* the one character U+2026
ELLIPSIS == "..."
\* DEFAULT_CATEGORIES, in English
DEFAULT_CATEGORIES == {"AI-Tech", "Business", "Marketing", "Sports-Health", "Learning",
                       "News", "Entertainment", "Other"}

Tok(t, id) == [t |-> t, id |-> id, category |-> ""]
FENCE == Tok("fence", <<>>)
LB == Tok("[", <<>>)
RB == Tok("]", <<>>)
COMMA == Tok(",", <<>>)
WORD == Tok("word", <<>>)
NUM == Tok("num", <<>>)
\* an object {"id": ..., "category": ..., "summary": ...} with a category of the prompt
ENTRY(id) == [Tok("entry", id) EXCEPT !.category = "AI-Tech"]
\* the same with a category the prompt does not list
ENTRY_OTHER_CATEGORY(id) == [Tok("entry", id) EXCEPT !.category = "Cooking"]

\* JSON values as json.loads builds them
JVal(t, id, category, summary, items) ==
    [t |-> t, id |-> id, category |-> category, summary |-> summary, items |-> items]
JNum == JVal("num", <<>>, "", <<>>, <<>>)
JStr == JVal("str", <<>>, "", <<>>, <<>>)
JObj(id, category, summary) == JVal("obj", id, category, summary, <<>>)
JList(items) == JVal("list", <<>>, "", <<>>, items)
JNone == JVal("none", <<>>, "", <<>>, <<>>)

ParseFail == [ok |-> FALSE, val |-> JNone, next |-> 0]
RECURSIVE ParseValue(_, _), ParseItems(_, _, _)
\* one JSON value starting at token i
ParseValue(t, i) ==
    IF i > Len(t) THEN ParseFail
    ELSE IF t[i] = NUM THEN [ok |-> TRUE, val |-> JNum, next |-> i + 1]
    ELSE IF t[i].t = "entry"
         THEN [ok |-> TRUE, val |-> JObj(t[i].id, t[i].category, <<"s">>), next |-> i + 1]
    ELSE IF t[i] = LB
         THEN IF i + 1 <= Len(t) /\ t[i + 1] = RB
              THEN [ok |-> TRUE, val |-> JList(<<>>), next |-> i + 2]
              ELSE ParseItems(t, i + 1, <<>>)
    ELSE ParseFail
\* the elements of an array, the first of them at token i
ParseItems(t, i, acc) ==
    LET v == ParseValue(t, i)
    IN  IF ~v.ok THEN ParseFail
        ELSE IF v.next <= Len(t) /\ t[v.next] = COMMA
             THEN ParseItems(t, v.next + 1, Append(acc, v.val))
        ELSE IF v.next <= Len(t) /\ t[v.next] = RB
             THEN [ok |-> TRUE, val |-> JList(Append(acc, v.val)), next |-> v.next + 1]
        ELSE ParseFail
\* json.loads(text): JSONDecodeError unless the whole text is one value
json_loads(t) ==
    LET v == ParseValue(t, 1)
    IN  IF v.ok /\ v.next = Len(t) + 1 THEN [ok |-> TRUE, val |-> v.val]
        ELSE [ok |-> FALSE, val |-> JNone]

\* re.sub(r"```(?:json)?", "", text) when "```" is in the text
StripFences(text) ==
    IF \E i \in 1..Len(text) : text[i] = FENCE
    THEN SelectSeq(text, LAMBDA tk : tk # FENCE)
    ELSE text

\* re.search(r"\[.*?\]", text, re.DOTALL): from the first "[" to the first "]" after it
FirstBracketed(text) ==
    LET opens == {i \in 1..Len(text) : text[i] = LB}
    IN  IF opens = {} THEN [found |-> FALSE, group |-> <<>>]
        ELSE LET i == CHOOSE k \in opens : \A m \in opens : k <= m
                 closes == {j \in (i + 1)..Len(text) : text[j] = RB}
             IN  IF closes = {} THEN [found |-> FALSE, group |-> <<>>]
                 ELSE [found |-> TRUE,
                       group |-> SubSeq(text, i, CHOOSE k \in closes : \A m \in closes : k <= m)]

\* {"id": bm.id, "category": "Other", "summary": bm.text[:80] + ELLIPSIS} for bm in bookmarks
DefaultSummaries_first_only(bookmarks) ==
    [i \in 1..Len(bookmarks) |->
        JObj(bookmarks[1].id, "Other",
             PySlicePrefix(bookmarks[1].text, SUMMARY_FALLBACK_LEN) \o <<ELLIPSIS>>)]
DefaultSummaries(bookmarks) ==
    [i \in 1..Len(bookmarks) |->
        JObj(bookmarks[i].id, "Other",
             PySlicePrefix(bookmarks[i].text, SUMMARY_FALLBACK_LEN) \o <<ELLIPSIS>>)]

\* The body of _summarize_chunk after the response arrived: the value it returns as
\* summaries, and the rung of the ladder that produced it.
_summarize_chunk(bookmarks, response_text) ==
    LET result_text == StripFences(response_text)
        strict == json_loads(result_text)
        match == FirstBracketed(result_text)
        inner == json_loads(match.group)
    IN  IF strict.ok THEN [rung |-> "strict", summaries |-> strict.val]
        ELSE IF match.found /\ inner.ok THEN [rung |-> "bracket", summaries |-> inner.val]
        ELSE [rung |-> "default", summaries |-> JList(DefaultSummaries(bookmarks))]

\* all_summaries.extend(summaries): the items of a list, the keys of a dict, TypeError
\* for a number
ListExtend(all_summaries, summaries) ==
    IF summaries.t = "list" THEN [exc |-> "none", list |-> all_summaries \o summaries.items]
    ELSE IF summaries.t = "obj" THEN [exc |-> "none", list |-> all_summaries \o <<JStr, JStr, JStr>>]
    ELSE [exc |-> "TypeError", list |-> all_summaries]

Chunks_one_short(bookmarks) ==
    [c \in 1..((Len(bookmarks) + CHUNK_SIZE - 2) \div (CHUNK_SIZE - 1)) |->
        SubSeq(bookmarks, (c - 1) * (CHUNK_SIZE - 1) + 1,
               Min(c * (CHUNK_SIZE - 1), Len(bookmarks)))]
\* [bookmarks[i:i + CHUNK_SIZE] for i in range(0, len(bookmarks), CHUNK_SIZE)]
Chunks(bookmarks) ==
    [c \in 1..((Len(bookmarks) + CHUNK_SIZE - 1) \div CHUNK_SIZE) |->
        SubSeq(bookmarks, (c - 1) * CHUNK_SIZE + 1, Min(c * CHUNK_SIZE, Len(bookmarks)))]

\* {s["id"]: s for s in summaries_raw}: TypeError when an element is no dict, the
\* last element of an identifier wins
SummaryMap(summaries_raw) ==
    IF \E i \in 1..Len(summaries_raw) : summaries_raw[i].t # "obj"
    THEN [exc |-> "TypeError", map |-> <<>>]
    ELSE [exc |-> "none",
          map |-> [id \in {summaries_raw[i].id : i \in 1..Len(summaries_raw)} |->
                      summaries_raw[CHOOSE i \in 1..Len(summaries_raw) :
                          /\ summaries_raw[i].id = id
                          /\ \A j \in 1..Len(summaries_raw) : summaries_raw[j].id = id => j <= i]]]

WebResult(src) == [src |-> src, title |-> "t", url |-> "u", snippet |-> "s"]
NoEnrichment == [keywords |-> <<>>, web_results |-> <<>>]

\* EnrichedBookmark(bookmark=..., category=..., ...): the fields of the dataclass
EnrichedBookmark(bookmark, category, summary, keywords, web_results, enrichment_summary) ==
    [bookmark |-> bookmark, category |-> category, summary |-> summary,
     keywords |-> keywords, web_results |-> web_results,
     enrichment_summary |-> enrichment_summary]

BuildOne_whole_text(bookmark, summary_map, enrichment_data, enrichment_summary) ==
    LET present == bookmark.id \in DOMAIN summary_map
        enr == IF bookmark.id \in DOMAIN enrichment_data THEN enrichment_data[bookmark.id]
               ELSE NoEnrichment
    IN  EnrichedBookmark(
            bookmark,
            IF present THEN summary_map[bookmark.id].category ELSE "Other",
            IF present THEN summary_map[bookmark.id].summary
            ELSE bookmark.text \o <<ELLIPSIS>>,
            enr.keywords, enr.web_results, enrichment_summary)
\* the EnrichedBookmark build_enriched_bookmarks appends for one bookmark
BuildOne(bookmark, summary_map, enrichment_data, enrichment_summary) ==
    LET present == bookmark.id \in DOMAIN summary_map
        enr == IF bookmark.id \in DOMAIN enrichment_data THEN enrichment_data[bookmark.id]
               ELSE NoEnrichment
    IN  EnrichedBookmark(
            bookmark,
            IF present THEN summary_map[bookmark.id].category ELSE "Other",
            IF present THEN summary_map[bookmark.id].summary
            ELSE PySlicePrefix(bookmark.text, ASSEMBLY_FALLBACK_LEN) \o <<ELLIPSIS>>,
            enr.keywords, enr.web_results, enrichment_summary)

SummIdle == [pc |-> "idle", bookmarks |-> <<>>, enrichment_data |-> <<>>, chunk |-> 0,
             text |-> <<>>, rung |-> "none", summaries |-> JNone, all_summaries |-> <<>>,
             summary_map |-> <<>>, idx |-> 0, enriched |-> <<>>, exc |-> "none"]

\* build_enriched_bookmarks(client, bookmarks, enrichment_data) entered
SummStart(bookmarks, enrichment_data) ==
    [SummIdle EXCEPT !.bookmarks = bookmarks, !.enrichment_data = enrichment_data,
                     !.chunk = 1,
                     !.pc = IF Len(bookmarks) = 0 THEN "map" ELSE "chunk"]
\* @with_retry(max_retries=3, base_delay=5.0) on _summarize_chunk
SummarizeChunkRetry == with_retry(3, 50, TRUE)
\* @with_retry(max_retries=2, base_delay=3.0) on summarize_enrichment
SummarizeEnrichmentRetry_unwrapped == with_retry(0, 30, TRUE)
SummarizeEnrichmentRetry == with_retry(2, 30, TRUE)
\* the wrapper entered for the first chunk, if there is one
SummStartRetry(bookmarks) ==
    IF Len(bookmarks) = 0 THEN RetryIdle ELSE SummarizeChunkRetry
\* what an attempt of a wrapped call, failed for good or not, leaves in effects
CallEffect(site, effect, r) ==
    [site |-> site, effect |-> effect,
     attempts |-> Len(SelectSeq(r.log, LAMBDA ev : ev.ev = "call")),
     sleeps |-> Len(SelectSeq(r.log, LAMBDA ev : ev.ev = "sleep"))]

\* One attempt of _summarize_chunk for the current chunk, and what
\* categorize_and_summarize does with its result.
ChunkAttempt(Texts) ==
    /\ summ.pc = "chunk"
    /\ retry.pc = "call"
    /\ \E ans \in {[ok |-> FALSE, text |-> <<>>]} \cup {[ok |-> TRUE, text |-> t] : t \in Texts} :
       \E pct \in IF ans.ok THEN {100} ELSE JitterPercents :
          LET out == IF ans.ok THEN Returned("response") ELSE Raised("APIError")
              r == WithRetryAttempt(retry, out, pct)
              chunks == Chunks(summ.bookmarks)
              parsed == _summarize_chunk(chunks[summ.chunk], ans.text)
              ext == ListExtend(summ.all_summaries, parsed.summaries)
              last == summ.chunk = Len(chunks)
          IN  IF r.pc = "sleep"
              THEN /\ retry' = r
                   /\ UNCHANGED <<summ, effects>>
              ELSE IF r.pc = "raised"
              THEN /\ retry' = RetryIdle
                   /\ summ' = [summ EXCEPT !.pc = "raised", !.exc = r.exc.kind]
                   /\ effects' = effects \cup {CallEffect("_summarize_chunk", "raise", r)}
              ELSE /\ retry' = IF last \/ ext.exc # "none" THEN RetryIdle
                               ELSE SummarizeChunkRetry
                   /\ summ' = [summ EXCEPT
                          !.text = ans.text,
                          !.rung = parsed.rung,
                          !.summaries = parsed.summaries,
                          !.all_summaries = ext.list,
                          !.exc = ext.exc,
                          !.chunk = IF ext.exc = "none" /\ ~last THEN summ.chunk + 1 ELSE summ.chunk,
                          !.pc = IF ext.exc # "none" THEN "raised"
                                 ELSE IF last THEN "map" ELSE "chunk"]
                   /\ UNCHANGED effects
    /\ UNCHANGED <<run, cacheVars, run>>

\* time.sleep(delay) of the wrapper in progress
StageSleep ==
    /\ summ.pc \in {"chunk", "note"}
    /\ retry.pc = "sleep"
    /\ retry' = WithRetrySleep(retry)
    /\ UNCHANGED <<run, cacheVars, summ, effects>>

\* summary_map = {s["id"]: s for s in summaries_raw}
BuildMap ==
    /\ summ.pc = "map"
    /\ LET m == SummaryMap(summ.all_summaries)
       IN  summ' = [summ EXCEPT
               !.text = <<>>, !.rung = "none", !.summaries = JNone,
               !.summary_map = m.map,
               !.exc = m.exc,
               !.idx = 1,
               !.pc = IF m.exc # "none" THEN "raised" ELSE "record"]
    /\ UNCHANGED <<run, cacheVars, retry, effects>>

EnrichmentOf(bookmark) ==
    IF bookmark.id \in DOMAIN summ.enrichment_data THEN summ.enrichment_data[bookmark.id]
    ELSE NoEnrichment
\* "- [title] snippet" for r in web_results if r.title or r.snippet
HasResultsText(web_results) ==
    \E i \in 1..Len(web_results) : web_results[i].title # "" \/ web_results[i].snippet # ""

\* One pass of the for loop for a bookmark that needs no Completion Service call: no
\* web results (or none with a title or a snippet, where summarize_enrichment returns "").
BuildRecord ==
    /\ summ.pc = "record"
    /\ summ.idx <= Len(summ.bookmarks)
    /\ LET bm == summ.bookmarks[summ.idx]
           web == EnrichmentOf(bm).web_results
       IN  IF Len(web) > 0 /\ HasResultsText(web)
           THEN /\ summ' = [summ EXCEPT !.pc = "note"]
                /\ retry' = SummarizeEnrichmentRetry
           ELSE /\ summ' = [summ EXCEPT
                       !.enriched = Append(summ.enriched,
                                           BuildOne(bm, summ.summary_map, summ.enrichment_data, "")),
                       !.idx = summ.idx + 1]
                /\ UNCHANGED retry
    /\ UNCHANGED <<run, cacheVars, effects>>

\* the sentinel the prompt asks for when the results say nothing, in English
NO_INFO_SENTINEL == "(no supplementary information)"
\* One attempt of summarize_enrichment (@with_retry(max_retries=2, base_delay=3.0)) and,
\* once the wrapper ends, the except clause and the append of build_enriched_bookmarks.
NoteAttempt ==
    /\ summ.pc = "note"
    /\ retry.pc = "call"
    /\ \E out \in {Raised("APIError")} \cup {Returned(t) : t \in {"note", NO_INFO_SENTINEL}} :
       \E pct \in IF out.ok THEN {100} ELSE JitterPercents :
          LET r == WithRetryAttempt(retry, out, pct)
              bm == summ.bookmarks[summ.idx]
              note == IF r.pc = "raised" THEN ""
                      ELSE IF r.result = NO_INFO_SENTINEL THEN "" ELSE r.result
          IN  IF r.pc = "sleep"
              THEN /\ retry' = r
                   /\ UNCHANGED <<summ, effects>>
              ELSE /\ retry' = RetryIdle
                   /\ summ' = [summ EXCEPT
                          !.pc = "record",
                          !.enriched = Append(summ.enriched,
                                              BuildOne(bm, summ.summary_map, summ.enrichment_data, note)),
                          !.idx = summ.idx + 1]
                   /\ effects' = IF r.pc = "raised"
                                 THEN effects \cup {CallEffect("summarize_enrichment", "empty", r)}
                                 ELSE effects
    /\ UNCHANGED <<run, cacheVars, run>>

\* return enriched, token_usage
BuildReturn ==
    /\ summ.pc = "record"
    /\ summ.idx > Len(summ.bookmarks)
    /\ summ' = [summ EXCEPT !.pc = "done"]
    /\ UNCHANGED <<run, cacheVars, retry, effects>>

(***************************************************************************)
(* The pipeline (main.py, run_digest) with enrichment (search_enricher.py) *)
(* and notification (slack_notifier.py).                                   *)
(***************************************************************************)
MAX_BLOCKS_PER_MESSAGE == 50
MAX_WEB_RESULTS == 3
DEFAULT_MAX_ITEMS == 30
IMPORTANCE_LABEL == {"high", "normal", "low"}

\* ---- bookmark_loader.py: load_bookmarks ----
\* A bookmarks file: its extension, whether it starts with a UTF-8 byte order mark,
\* the number of spaces before its text, and its text by kind:
\*   "missing"   the path does not exist
\*   "empty"     no text
\*   "malformed" a truncated JSON array (first character "[")
\*   "nolist"    a JSON object (first character "{")
\*   "scalar"    a JSON number (first character a digit)
\*   "items"     a JSON array of `items`
\*   "csv"       delimited text: a header line naming `cols`, then `rows`
\* A JSON item is [obj, key, id, text_is_str, text, like_count]: whether it is an object,
\* the alias under which its identifier is stored ("none": under no alias), the
\* identifier, its text (and whether that is a string) and the raw like_count.
\* A row maps the column names id, Link, url, Text to the values of that line.
File(kind, ext, bom, ws, items, cols, rows) ==
    [kind |-> kind, ext |-> ext, bom |-> bom, ws |-> ws,
     items |-> items, cols |-> cols, rows |-> rows]
JsonItem(key, id, text, like_count) ==
    [obj |-> TRUE, key |-> key, id |-> id, text_is_str |-> TRUE, text |-> text,
     like_count |-> like_count]
ExportMissing == File("missing", ".json", FALSE, 0, <<>>, <<>>, <<>>)
ExportEmpty == File("empty", ".json", FALSE, 0, <<>>, <<>>, <<>>)
ExportMalformed == File("malformed", ".json", FALSE, 0, <<>>, <<>>, <<>>)
ExportNoList == File("nolist", ".json", FALSE, 0, <<>>, <<>>, <<>>)
\* a .json file holding the array of one object per identifier (<<>>: an object
\* without identifier)
ExportItems(ids) ==
    File("items", ".json", FALSE, 0,
         [i \in 1..Len(ids) |->
             JsonItem(IF ids[i] = <<>> THEN "none" ELSE "id", ids[i], <<"t">> \o ids[i], <<"0">>)],
         <<>>, <<>>)

\* os.path.getsize(filepath)
FileSize(file) ==
    (IF file.bom THEN 3 ELSE 0) + file.ws
    + (IF file.kind = "empty" THEN 0 ELSE 1 + Len(file.items) + Len(file.rows))
\* f.read(1).strip() of the file opened as utf-8-sig
FirstChar(file) ==
    IF file.ws > 0 \/ file.kind = "empty" THEN ""
    ELSE IF file.kind \in {"items", "malformed"} THEN "["
    ELSE IF file.kind = "nolist" THEN "{"
    ELSE IF file.kind = "scalar" THEN "5"
    ELSE "c"
is_csv_by_extension(file) == file.ext = ".csv"
is_csv(file) ==
    file.ext = ".csv" \/ (FirstChar(file) \notin {"[", "{"} /\ FirstChar(file) # "")

RECURSIVE LStrip(_)
LStrip(s) == IF s # <<>> /\ Head(s) = " " THEN LStrip(Tail(s)) ELSE s
RECURSIVE RStrip(_)
RStrip(s) == IF s # <<>> /\ s[Len(s)] = " " THEN RStrip(SubSeq(s, 1, Len(s) - 1)) ELSE s
\* str.strip()
Strip(s) == RStrip(LStrip(s))

\* _parse_json_item(item): the exception it raises, or the record it returns (none for
\* an item without identifier)
_parse_json_item(item) ==
    IF ~item.obj THEN [exc |-> "AttributeError", bms |-> <<>>]
    ELSE IF item.key = "none" \/ item.id = <<>> THEN [exc |-> "none", bms |-> <<>>]
    ELSE IF int(item.like_count).exc # "none"
         THEN [exc |-> int(item.like_count).exc, bms |-> <<>>]
    ELSE IF ~item.text_is_str THEN [exc |-> "AttributeError", bms |-> <<>>]
    ELSE [exc |-> "none",
          bms |-> <<Bookmark(item.id, Strip(item.text), int(item.like_count).v)>>]

RECURSIVE ParseJsonItems(_)
\* the loop of _load_from_json: an item that raises is skipped
ParseJsonItems(items) ==
    IF items = <<>> THEN <<>>
    ELSE _parse_json_item(Head(items)).bms \o ParseJsonItems(Tail(items))

_load_from_json_accepts_any_value(file) ==
    IF file.bom THEN [exc |-> "JSONDecodeError", bookmarks |-> <<>>]
    ELSE IF file.kind \in {"malformed", "csv"} THEN [exc |-> "JSONDecodeError", bookmarks |-> <<>>]
    ELSE [exc |-> "none", bookmarks |-> ParseJsonItems(file.items)]
\* _load_from_json(filepath): the file is read as utf-8, so a byte order mark stays in
\* the content and json.loads rejects it
_load_from_json(file) ==
    IF file.bom THEN [exc |-> "JSONDecodeError", bookmarks |-> <<>>]
    ELSE IF file.kind = "empty" THEN [exc |-> "none", bookmarks |-> <<>>]
    ELSE IF file.kind \in {"malformed", "csv"} THEN [exc |-> "JSONDecodeError", bookmarks |-> <<>>]
    ELSE IF file.kind # "items" THEN [exc |-> "ValueError", bookmarks |-> <<>>]
    ELSE [exc |-> "none", bookmarks |-> ParseJsonItems(file.items)]

STATUS == "/status/"
\* _extract_tweet_id_from_url(url): the digits after the first /status/ that is
\* followed by a digit; a URL is a sequence of characters with /status/ as one token
_extract_tweet_id_from_url(url) ==
    LET starts == {i \in 1..(Len(url) - 1) : url[i] = STATUS /\ url[i + 1] \in Digits}
    IN  IF starts = {} THEN <<>>
        ELSE LET i == CHOOSE k \in starts : \A m \in starts : k <= m
                 last == CHOOSE k \in (i + 1)..Len(url) :
                            /\ \A m \in (i + 1)..k : url[m] \in Digits
                            /\ (k = Len(url) \/ url[k + 1] \notin Digits)
             IN  SubSeq(url, i + 1, last)

\* the column names csv.DictReader reads from the header line: spaces before the text
\* belong to the first name
FieldNames(file) ==
    IF file.kind # "csv" THEN <<>>
    ELSE IF file.ws > 0 THEN [i \in 1..Len(file.cols) |-> IF i = 1 THEN "?" ELSE file.cols[i]]
    ELSE file.cols
\* row.get(name) or ""
RowGet(file, row, name) ==
    IF name \in Range(FieldNames(file)) /\ name \in DOMAIN row THEN row[name] ELSE <<>>
\* a or b of Python for strings
Or(a, b) == IF a # <<>> THEN a ELSE b

\* the identifier _load_from_csv resolves for a row
RowTweetId(file, row) ==
    LET link == Strip(Or(RowGet(file, row, "Link"), RowGet(file, row, "link")))
    IN  Strip(Or(RowGet(file, row, "id"), Or(RowGet(file, row, "tweet_id"),
              Or(RowGet(file, row, "ID"), _extract_tweet_id_from_url(link)))))
RowText(file, row) ==
    Strip(Or(RowGet(file, row, "Text"), Or(RowGet(file, row, "text"),
             Or(RowGet(file, row, "content"), RowGet(file, row, "Content")))))

RECURSIVE ParseRows(_, _)
\* the loop over the rows: a row without identifier is skipped
ParseRows(file, rows) ==
    IF rows = <<>> THEN <<>>
    ELSE (IF RowTweetId(file, Head(rows)) = <<>> THEN <<>>
          ELSE <<Bookmark(RowTweetId(file, Head(rows)), RowText(file, Head(rows)), 0)>>)
         \o ParseRows(file, Tail(rows))

\* what the Syndication and oEmbed services answer during one load: a text (<<>>: no
\* text obtained) and a like count (0: none obtained)
NetAnswers ==
    {[text |-> <<>>, like_count |-> 0], [text |-> <<"n">>, like_count |-> 0],
     [text |-> <<"n">>, like_count |-> 7]}
\* the completion of a record without text from the network
Complete(bm, net) ==
    IF bm.text = <<>> THEN [bm EXCEPT !.text = net.text, !.like_count = net.like_count]
    ELSE bm
\* _load_from_csv(filepath): the file is read as utf-8-sig; text that is no header
\* line followed by rows yields no row with a known column
_load_from_csv(file, net) ==
    LET parsed == IF file.kind = "csv" THEN ParseRows(file, file.rows) ELSE <<>>
    IN  [exc |-> "none", bookmarks |-> [i \in 1..Len(parsed) |-> Complete(parsed[i], net)]]

RECURSIVE Unique_keeps_last(_, _)
Unique_keeps_last(bookmarks, seen_ids) ==
    IF bookmarks = <<>> THEN <<>>
    ELSE IF Head(bookmarks).id \in {Tail(bookmarks)[i].id : i \in 1..(Len(bookmarks) - 1)}
    THEN Unique_keeps_last(Tail(bookmarks), seen_ids)
    ELSE <<Head(bookmarks)>> \o Unique_keeps_last(Tail(bookmarks), seen_ids)
RECURSIVE Unique(_, _)
\* the loop over seen_ids: the first record of an identifier is kept
Unique(bookmarks, seen_ids) ==
    IF bookmarks = <<>> THEN <<>>
    ELSE IF Head(bookmarks).id \in seen_ids THEN Unique(Tail(bookmarks), seen_ids)
    ELSE <<Head(bookmarks)>> \o Unique(Tail(bookmarks), seen_ids \cup {Head(bookmarks).id})

\* load_bookmarks(filepath), the network answering `net` during the load: the
\* exception raised or the list returned, and the parser that was selected
load_bookmarks(file, net) ==
    IF file.kind = "missing"
    THEN [exc |-> "FileNotFoundError", bookmarks |-> <<>>, parser |-> "none"]
    ELSE IF FileSize(file) = 0 THEN [exc |-> "none", bookmarks |-> <<>>, parser |-> "none"]
    ELSE LET parsed == IF is_csv(file) THEN _load_from_csv(file, net)
                       ELSE _load_from_json(file)
         IN  [exc |-> parsed.exc,
              bookmarks |-> IF parsed.exc = "none" THEN Unique(parsed.bookmarks, {}) ELSE <<>>,
              parser |-> IF is_csv(file) THEN "csv" ELSE "json"]

\* extract_keywords: the keywords of the response, [] when the call raises
extract_keywords(outcome) ==
    IF outcome = "some" THEN <<"k">>
    ELSE IF outcome = "many" THEN <<"k1", "k2", "k3">>
    ELSE <<>>
\* search_duckduckgo: the results appended before an exception, if any
\* of the query `query` ("web": the keywords; "x": the first two keywords and site:x.com)
\* the results appended before an exception are kept
search_duckduckgo(query, outcome) == [i \in 1..outcome.n |-> WebResult(query)]
SearchOutcomes(max_results) ==
    {[ok |-> FALSE, n |-> 0]} \cup {[ok |-> TRUE, n |-> n] : n \in {0, max_results}}
\* a search that returns, or raises, after any number of results up to max_results
AllSearchOutcomes(max_results) == [ok : BOOLEAN, n : 0..max_results]

\* enrich_bookmark(client, bookmark) under the outcomes of its three calls
enrich_bookmark_empty_on_failure(kw, web, x) ==
    IF extract_keywords(kw) = <<>> \/ ~web.ok \/ (web.n < 2 /\ ~x.ok) THEN NoEnrichment
    ELSE [keywords |-> extract_keywords(kw),
          web_results |-> IF web.n < 2
                          THEN PySlicePrefix(search_duckduckgo("web", web) \o search_duckduckgo("x", x),
                                             MAX_WEB_RESULTS)
                          ELSE search_duckduckgo("web", web)]
enrich_bookmark_always_x(kw, web, x) ==
    IF extract_keywords(kw) = <<>> THEN NoEnrichment
    ELSE [keywords |-> extract_keywords(kw),
          web_results |-> PySlicePrefix(search_duckduckgo("web", web) \o search_duckduckgo("x", x),
                                        MAX_WEB_RESULTS)]
enrich_bookmark(kw, web, x) ==
    LET keywords == extract_keywords(kw)
        web_results == search_duckduckgo("web", web)
    IN  IF keywords = <<>> THEN NoEnrichment
        ELSE [keywords |-> keywords,
              web_results |-> IF Len(web_results) < 2
                              THEN PySlicePrefix(web_results \o search_duckduckgo("x", x),
                                                 MAX_WEB_RESULTS)
                              ELSE web_results]

Event(ev, query, ok, n) == [ev |-> ev, query |-> query, ok |-> ok, n |-> n]
SITE_X == "site:x.com"
\* the calls enrich_bookmark makes, in order, with their queries and outcomes:
\* extract_keywords, search_duckduckgo, search_xcom_via_web, time.sleep(SEARCH_INTERVAL_SEC)
enrich_bookmark_calls_sleep_always(kw, web, x) ==
    LET keywords == extract_keywords(kw)
        web_results == search_duckduckgo("web", web)
    IN  <<Event("extract_keywords", <<>>, kw # "raise", Len(keywords))>>
        \o (IF keywords = <<>> THEN <<>>
            ELSE <<Event("search_duckduckgo", keywords, web.ok, Len(web_results))>>
                 \o (IF Len(web_results) < 2
                     THEN <<Event("search_xcom_via_web",
                                  Append(PySlicePrefix(keywords, 2), SITE_X),
                                  x.ok, Len(search_duckduckgo("x", x)))>>
                     ELSE <<>>))
        \o <<Event("sleep", <<>>, TRUE, 0)>>
enrich_bookmark_calls(kw, web, x) ==
    LET keywords == extract_keywords(kw)
        web_results == search_duckduckgo("web", web)
    IN  <<Event("extract_keywords", <<>>, kw # "raise", Len(keywords))>>
        \o (IF keywords = <<>> THEN <<>>
            ELSE <<Event("search_duckduckgo", keywords, web.ok, Len(web_results))>>
                 \o (IF Len(web_results) < 2
                     THEN <<Event("search_xcom_via_web",
                                  Append(PySlicePrefix(keywords, 2), SITE_X),
                                  x.ok, Len(search_duckduckgo("x", x)))>>
                     ELSE <<>>)
                 \o <<Event("sleep", <<>>, TRUE, 0)>>)

EnrichEffects(kw, web, x) ==
    (IF kw = "raise" THEN {[site |-> "extract_keywords", effect |-> "empty", attempts |-> 1, sleeps |-> 0]}
     ELSE {})
    \cup (IF extract_keywords(kw) # <<>>
             /\ (~web.ok \/ (Len(search_duckduckgo("web", web)) < 2 /\ ~x.ok))
          THEN {[site |-> "search_duckduckgo", effect |-> "empty", attempts |-> 1, sleeps |-> 0]}
          ELSE {})

HasImportance(bm) == "importance" \in DOMAIN bm
\* A text of the notifier is a sequence of pieces; a piece is a run of len characters
\* that belongs to the record id (<<>> for fixed wording), and whole says that no slice
\* has cut it.  A category name counts 3 or 6 characters, a date 10.
Piece(what, id, len) == [what |-> what, id |-> id, len |-> len, whole |-> TRUE]
Lit(len) == <<Piece("lit", <<>>, len)>>
EllipsisPiece == Piece("ellipsis", <<>>, 1)
RECURSIVE TextLen(_)
TextLen(text) ==
    IF text = <<>> THEN 0
    ELSE IF Len(text) = 1 THEN text[1].len
    ELSE LET half == Len(text) \div 2
         IN  TextLen(SubSeq(text, 1, half)) + TextLen(SubSeq(text, half + 1, Len(text)))
\* the first n characters: the pieces that fit, and the fitting part of the next one
TextPrefix(text, n) ==
    LET fit == Cardinality({k \in 1..Len(text) : TextLen(SubSeq(text, 1, k)) <= n})
        rest == n - TextLen(SubSeq(text, 1, fit))
    IN  IF n <= 0 THEN <<>>
        ELSE SubSeq(text, 1, fit)
             \o (IF fit < Len(text) /\ rest > 0
                 THEN <<[text[fit + 1] EXCEPT !.len = rest, !.whole = FALSE]>>
                 ELSE <<>>)
\* text[:n], a negative n counting from the end
TextSlice(text, n) == TextPrefix(text, IF n < 0 THEN TextLen(text) + n ELSE n)
RECURSIVE Join(_, _)
Join(texts, sep) ==
    IF texts = <<>> THEN <<>>
    ELSE IF Len(texts) = 1 THEN texts[1]
    ELSE LET half == Len(texts) \div 2
         IN  Join(SubSeq(texts, 1, half), sep) \o Lit(sep)
             \o Join(SubSeq(texts, half + 1, Len(texts)), sep)
\* the length of f"{n:,}"
RECURSIVE DecimalLen(_)
DecimalLen(n) == IF n < 10 THEN 1 ELSE 1 + DecimalLen(n \div 10)
CommaLen(n) == DecimalLen(n) + (DecimalLen(n) - 1) \div 3
CategoryName(category) == Lit(IF category = "Other" THEN 3 ELSE 6)

\* sorted(seq, key=Key, reverse=True): stable, equal keys keep their order
\* keys[i] is the key of seq[i]
StableSortDesc(seq, keys) ==
    LET n == Len(seq)
        rank(i) == 1 + Cardinality({j \in 1..n : \/ keys[j] > keys[i]
                                                 \/ keys[j] = keys[i] /\ j < i})
    IN  [k \in 1..n |-> seq[CHOOSE i \in 1..n : rank(i) = k]]

_truncate_one_over(text, max_len) ==
    IF TextLen(text) <= max_len THEN text ELSE TextSlice(text, max_len) \o <<EllipsisPiece>>
_truncate(text, max_len) ==
    IF TextLen(text) <= max_len THEN text ELSE TextSlice(text, max_len - 1) \o <<EllipsisPiece>>

\* <url|@author_username>
TweetLink(bm) ==
    <<Piece("link", bm.bookmark.id,
            1 + TextLen(bm.bookmark.url) + 2 + TextLen(bm.bookmark.author_username) + 1)>>
Block(type, role, text) == [type |-> type, role |-> role, text |-> text]
DIVIDER == Block("divider", "divider", <<>>)

WebLinks_all(bm) ==
    LET shown == SelectSeq(bm.web_results, LAMBDA r : r.url # <<>> /\ r.title # <<>>)
    IN  [i \in 1..Len(shown) |->
            <<Piece("web_link", bm.bookmark.id,
                    1 + TextLen(shown[i].url) + 1 + TextLen(_truncate(shown[i].title, 40)) + 1)>>]
\* links = [... for r in bm.web_results[:2] if r.url and r.title]
WebLinks(bm) ==
    LET shown == SelectSeq(PySlicePrefix(bm.web_results, 2),
                           LAMBDA r : r.url # <<>> /\ r.title # <<>>)
    IN  [i \in 1..Len(shown) |->
            <<Piece("web_link", bm.bookmark.id,
                    1 + TextLen(shown[i].url) + 1 + TextLen(_truncate(shown[i].title, 40)) + 1)>>]

_build_high_block(bm) ==
    LET like_str == IF bm.bookmark.like_count > 0
                    THEN Lit(4 + CommaLen(bm.bookmark.like_count)) ELSE <<>>
        cat == Lit(2) \o CategoryName(bm.category)
        header == Lit(3) \o TweetLink(bm) \o Lit(1) \o like_str \o Lit(3) \o cat \o Lit(1)
        summary == _truncate(bm.summary, 250)
        enrichment == IF bm.enrichment_summary # <<>>
                      THEN Lit(4) \o _truncate(bm.enrichment_summary, 180) \o Lit(1)
                      ELSE <<>>
        links == IF bm.web_results # <<>> THEN WebLinks(bm) ELSE <<>>
        web_links == IF links # <<>> THEN Lit(3) \o Join(links, 5) ELSE <<>>
        text == header \o Lit(1) \o summary \o enrichment \o web_links
    IN  Block("section", "high", TextSlice(text, 3000))

\* one line of a category block
_build_normal_block(bm) ==
    LET like_str == IF bm.bookmark.like_count > 0
                    THEN Lit(2 + CommaLen(bm.bookmark.like_count)) ELSE <<>>
        summary == _truncate(bm.summary, 120)
    IN  Lit(2) \o TweetLink(bm) \o like_str \o Lit(3) \o summary

\* the keys of by_cat, in the order of their first record
RECURSIVE CategoriesInOrder(_)
CategoriesInOrder(bms) ==
    IF bms = <<>> THEN <<>>
    ELSE LET before == CategoriesInOrder(PySlicePrefix(bms, Len(bms) - 1))
             c == bms[Len(bms)].category
         IN  IF c \in Range(before) THEN before ELSE Append(before, c)

CategoryBlock(category, bms) ==
    LET bms_sorted == StableSortDesc(bms, [i \in 1..Len(bms) |-> bms[i].bookmark.like_count])
        lines == [i \in 1..Len(bms_sorted) |-> _build_normal_block(bms_sorted[i])]
        cat_text == Lit(3) \o CategoryName(category) \o Lit(2) \o Join(lines, 1)
    IN  Block("section", "category", TextSlice(cat_text, 3000))

LowBlock(low_bms) ==
    LET links == [i \in 1..Len(low_bms) |-> TweetLink(low_bms[i])]
        low_text == Lit(12 + DecimalLen(Len(low_bms)) + 4) \o Join(links, 2)
    IN  Block("section", "low", TextSlice(low_text, 3000))

\* build_digest_blocks(result): the block list, AttributeError when a record has no
\* importance attribute
build_digest_blocks(bookmarks) ==
    IF \E i \in 1..Len(bookmarks) : ~HasImportance(bookmarks[i])
    THEN [exc |-> "AttributeError", blocks |-> <<>>]
    ELSE LET high_bms == SelectSeq(bookmarks, LAMBDA bm : bm.importance = "high")
             normal_bms == SelectSeq(bookmarks, LAMBDA bm : bm.importance = "normal")
             low_bms == SelectSeq(bookmarks, LAMBDA bm : bm.importance = "low")
             counts == (IF high_bms # <<>> THEN <<Lit(5 + DecimalLen(Len(high_bms)) + 1)>> ELSE <<>>)
                       \o (IF normal_bms # <<>> THEN <<Lit(5 + DecimalLen(Len(normal_bms)) + 1)>> ELSE <<>>)
                       \o (IF low_bms # <<>> THEN <<Lit(5 + DecimalLen(Len(low_bms)) + 1)>> ELSE <<>>)
             by_cat(c) == SelectSeq(normal_bms, LAMBDA bm : bm.category = c)
             cats == CategoriesInOrder(normal_bms)
             sorted_cats == StableSortDesc(cats, [k \in 1..Len(cats) |-> Len(by_cat(cats[k]))])
         IN  [exc |-> "none",
              blocks |->
                 <<Block("header", "header", Lit(21 + 10)),
                   Block("context", "counts",
                         Join(counts, 2) \o Lit(3 + DecimalLen(Len(bookmarks)) + 1)),
                   DIVIDER>>
                 \o (IF high_bms # <<>>
                     THEN <<Block("section", "high_title", Lit(10))>>
                          \o [i \in 1..Len(high_bms) |-> _build_high_block(high_bms[i])]
                          \o <<DIVIDER>>
                     ELSE <<>>)
                 \o (IF normal_bms # <<>>
                     THEN [k \in 1..Len(sorted_cats) |->
                              CategoryBlock(sorted_cats[k], by_cat(sorted_cats[k]))]
                          \o <<DIVIDER>>
                     ELSE <<>>)
                 \o (IF low_bms # <<>> THEN <<LowBlock(low_bms), DIVIDER>> ELSE <<>>)
                 \o <<Block("context", "footer", Lit(39))>>]
\* send_to_slack: one message up to MAX_BLOCKS_PER_MESSAGE blocks, else chunks of
\* MAX_BLOCKS_PER_MESSAGE - 2
MessageCount(blocks) ==
    IF blocks <= MAX_BLOCKS_PER_MESSAGE THEN 1
    ELSE (blocks + (MAX_BLOCKS_PER_MESSAGE - 2) - 1) \div (MAX_BLOCKS_PER_MESSAGE - 2)

\* _send_payload: response.raise_for_status(), or the exception of requests.post
\* the payloads of send_to_slack: [blocks, part], part = <<idx + 1, len(chunks)>> for the
\* suffix of the fallback text, <<>> for none
Payloads_by_limit(blocks) ==
    IF Len(blocks) <= MAX_BLOCKS_PER_MESSAGE THEN <<[blocks |-> blocks, part |-> <<>>]>>
    ELSE LET chunk_size == MAX_BLOCKS_PER_MESSAGE + 2
             n == (Len(blocks) + chunk_size - 1) \div chunk_size
         IN  [idx \in 1..n |->
                [blocks |-> SubSeq(blocks, (idx - 1) * chunk_size + 1,
                                   Min(idx * chunk_size, Len(blocks))),
                 part |-> IF n > 1 THEN <<idx, n>> ELSE <<>>]]
Payloads(blocks) ==
    IF Len(blocks) <= MAX_BLOCKS_PER_MESSAGE THEN <<[blocks |-> blocks, part |-> <<>>]>>
    ELSE LET chunk_size == MAX_BLOCKS_PER_MESSAGE - 2
             n == (Len(blocks) + chunk_size - 1) \div chunk_size
         IN  [idx \in 1..n |->
                [blocks |-> SubSeq(blocks, (idx - 1) * chunk_size + 1,
                                   Min(idx * chunk_size, Len(blocks))),
                 part |-> IF n > 1 THEN <<idx, n>> ELSE <<>>]]

_send_payload_no_raise(outcome) == "none"
_send_payload(outcome) ==
    IF outcome = "accepted" THEN "none"
    ELSE IF outcome = "rejected" THEN "HTTPError"
    ELSE "ConnectionError"
SendOutcomes == {"accepted", "rejected", "unreachable"}

\* _save_digest_cache(result): reads bm.importance of every record
_save_digest_cache(bookmarks) ==
    IF \E i \in 1..Len(bookmarks) : ~HasImportance(bookmarks[i]) THEN "AttributeError"
    ELSE "none"

RunIdle == [pc |-> "idle", env_ok |-> TRUE, export |-> ExportMissing,
            processed_ids_file |-> PROCESSED_IDS_FILE, dry_run |-> FALSE,
            skip_enrich |-> FALSE, max_items |-> DEFAULT_MAX_ITEMS, files0 |-> <<>>,
            new_count |-> 0, bookmarks |-> <<>>, idx |-> 0, enrichment_data |-> <<>>,
            enrich_log |-> <<>>, loads |-> <<>>,
            result |-> <<>>, blocks |-> <<>>, messages |-> 0, payloads |-> <<>>,
            sent |-> <<>>, digest_cache |-> FALSE,
            saved |-> FALSE, exc |-> "none", error_sent |-> "none", exit |-> "none",
            runs |-> 0, digested |-> {}]

\* env = load_env(), outside the try block
LoadEnv ==
    /\ run.pc = "env"
    /\ run' = IF run.env_ok THEN [run EXCEPT !.pc = "load"]
              ELSE [run EXCEPT !.pc = "ended", !.exc = "EnvironmentError", !.exit = "traceback"]
    /\ UNCHANGED <<cacheVars, retry, summ, effects>>

\* steps 1 and 2 of run_digest, the max_items slice, and the skip_enrich branch
LoadAndFilter ==
    /\ run.pc = "load"
    /\ \E net \in NetAnswers :
       LET loaded == load_bookmarks(run.export, net)
           processed_ids == load_processed_ids(files[run.processed_ids_file])
           new == filter_new_bookmarks(loaded.bookmarks, processed_ids)
           bookmarks == IF Len(new) > run.max_items THEN PySlicePrefix(new, run.max_items)
                        ELSE new
       IN  run' = IF loaded.exc # "none"
                  THEN [run EXCEPT !.pc = "handler", !.exc = loaded.exc]
                  ELSE IF Len(new) = 0
                  THEN [run EXCEPT !.pc = "ended", !.exit = "0"]
                  ELSE IF run.skip_enrich
                  THEN [run EXCEPT !.pc = "build", !.new_count = Len(new),
                                   !.bookmarks = bookmarks,
                                   !.enrichment_data =
                                       [id \in {bookmarks[i].id : i \in 1..Len(bookmarks)} |->
                                           NoEnrichment]]
                  ELSE [run EXCEPT !.pc = "enrich", !.new_count = Len(new),
                                   !.bookmarks = bookmarks, !.idx = 1]
    /\ UNCHANGED <<cacheVars, retry, summ, effects>>

\* one pass of the loop of enrich_all_bookmarks
EnrichStep(Kws, Webs, Xs) ==
    /\ run.pc = "enrich"
    /\ run.idx <= Len(run.bookmarks)
    /\ \E kw \in Kws : \E web \in Webs : \E x \in Xs :
          LET bm == run.bookmarks[run.idx]
              done == DOMAIN run.enrichment_data
          IN  /\ run' = [run EXCEPT
                     !.enrichment_data =
                         [id \in done \cup {bm.id} |->
                             IF id = bm.id THEN enrich_bookmark(kw, web, x)
                             ELSE run.enrichment_data[id]],
                     !.enrich_log = Append(run.enrich_log,
                                           [id |-> bm.id, calls |-> enrich_bookmark_calls(kw, web, x)]),
                     !.idx = run.idx + 1]
              /\ effects' = effects \cup EnrichEffects(kw, web, x)
    /\ UNCHANGED <<cacheVars, retry, summ>>
EnrichOne ==
    EnrichStep({"raise", "none", "some"}, SearchOutcomes(MAX_WEB_RESULTS), SearchOutcomes(2))

\* return results
EnrichReturn ==
    /\ run.pc = "enrich"
    /\ run.idx > Len(run.bookmarks)
    /\ run' = [run EXCEPT !.pc = "build"]
    /\ UNCHANGED <<cacheVars, retry, summ, effects>>

\* build_enriched_bookmarks(anthropic_client, bookmarks, enrichment_data) called
BuildCall ==
    /\ run.pc = "build"
    /\ run' = [run EXCEPT !.pc = "stage"]
    /\ summ' = SummStart(run.bookmarks, run.enrichment_data)
    /\ retry' = SummStartRetry(run.bookmarks)
    /\ UNCHANGED <<cacheVars, effects>>

\* the responses of the Completion Service to a chunk in a run
RunTexts ==
    {<<LB, ENTRY(ID_9), COMMA, ENTRY(ID_10), RB>>, <<FENCE, LB, ENTRY(ID_9), RB, FENCE>>,
     <<WORD>>, <<LB, NUM, RB>>}
RunChunkAttempt == run.pc = "stage" /\ ChunkAttempt(RunTexts)

\* step 6: the stage returned, or raised into the except clause
StageReturned ==
    /\ run.pc = "stage"
    /\ summ.pc \in {"done", "raised"}
    /\ run' = IF summ.pc = "done" THEN [run EXCEPT !.pc = "notify", !.result = summ.enriched]
              ELSE [run EXCEPT !.pc = "handler", !.exc = summ.exc]
    /\ UNCHANGED <<cacheVars, retry, summ, effects>>

\* step 7 up to the first _send_payload: _print_digest_summary, or build_digest_blocks
Notify ==
    /\ run.pc = "notify"
    /\ LET built == build_digest_blocks(run.result)
       IN  run' = IF run.dry_run THEN [run EXCEPT !.pc = "digest_cache"]
                  ELSE IF built.exc # "none"
                  THEN [run EXCEPT !.pc = "handler", !.exc = built.exc]
                  ELSE [run EXCEPT !.pc = "send", !.blocks = built.blocks,
                                   !.messages = MessageCount(Len(built.blocks))]
    /\ UNCHANGED <<cacheVars, retry, summ, effects>>

\* one _send_payload of send_to_slack
SendPayload ==
    /\ run.pc = "send"
    /\ \E outcome \in SendOutcomes :
          LET exc == _send_payload(outcome)
              sent == Append(run.sent, outcome)
              payloads == Append(run.payloads, Payloads(run.blocks)[Len(sent)])
          IN  /\ run' = IF exc # "none"
                        THEN [run EXCEPT !.pc = "handler", !.exc = exc, !.sent = sent,
                                         !.payloads = payloads]
                        ELSE [run EXCEPT !.sent = sent, !.payloads = payloads,
                                         !.pc = IF Len(sent) = run.messages THEN "digest_cache"
                                                ELSE "send"]
              /\ effects' = IF exc # "none"
                            THEN effects \cup {[site |-> "_send_payload", effect |-> "raise",
                                                attempts |-> 1, sleeps |-> 0]}
                            ELSE effects
    /\ UNCHANGED <<cacheVars, retry, summ>>

\* step 8: _save_digest_cache(result)
SaveDigestCache ==
    /\ run.pc = "digest_cache"
    /\ LET exc == _save_digest_cache(run.result)
       IN  run' = IF exc # "none" THEN [run EXCEPT !.pc = "handler", !.exc = exc]
                  ELSE [run EXCEPT !.pc = "save_ids", !.digest_cache = TRUE]
    /\ UNCHANGED <<cacheVars, retry, summ, effects>>

\* step 9: save_processed_ids(new_ids, processed_ids_file), then the normal return
SaveProcessedIds ==
    /\ run.pc = "save_ids"
    /\ LET new_ids == {run.result[i].bookmark.id : i \in 1..Len(run.result)}
       IN  \E o \in save_processed_ids(new_ids, files[run.processed_ids_file]) :
              IF o.exc # "none"
              THEN /\ run' = [run EXCEPT !.pc = "handler", !.exc = o.exc]
                   /\ UNCHANGED files
              ELSE /\ run' = [run EXCEPT !.pc = "ended", !.saved = TRUE, !.exit = "return"]
                   /\ files' = [files EXCEPT ![run.processed_ids_file] = o.content]
    /\ UNCHANGED <<cacheTrace, retry, summ, effects>>

\* the except clauses: send_error_to_slack swallows the failure of its own
\* _send_payload, then sys.exit(1)
ErrorHandler ==
    /\ run.pc = "handler"
    /\ \E outcome \in SendOutcomes :
          /\ run' = [run EXCEPT !.pc = "ended", !.exit = "1", !.error_sent = outcome]
          /\ effects' = IF _send_payload(outcome) # "none"
                        THEN effects \cup {[site |-> "_send_payload", effect |-> "swallowed",
                                            attempts |-> 1, sleeps |-> 0]}
                        ELSE effects
    /\ UNCHANGED <<cacheVars, retry, summ>>

RunExports ==
    {ExportMissing, ExportEmpty, ExportMalformed, ExportNoList,
     ExportItems(<<ID_9>>), ExportItems(<<ID_10, ID_9>>), ExportItems(<<ID_9, <<>>, ID_9>>)}
RunCaches == {FileMissing, FileCorrupt, FileIds(<<ID_9>>), FileIds(<<ID_1, ID_10>>)}
\* --max-items values: the slice of a negative, a zero, a small and the default value
MaxItemsChoices == {-1, 0, 1, DEFAULT_MAX_ITEMS}

Init ==
    /\ \E c \in RunCaches : InitFiles(c)
    /\ cacheTrace = NoTrace
    /\ retry = RetryIdle
    /\ summ = SummIdle
    /\ effects = {}
    /\ \E env_ok \in BOOLEAN : \E export \in RunExports : \E no_cache \in BOOLEAN :
       \E dry_run \in BOOLEAN : \E skip_enrich \in BOOLEAN : \E max_items \in MaxItemsChoices :
          run = [RunIdle EXCEPT
                    !.pc = "env", !.env_ok = env_ok, !.export = export,
                    !.processed_ids_file = IF no_cache THEN NO_CACHE_FILE ELSE PROCESSED_IDS_FILE,
                    !.dry_run = dry_run, !.skip_enrich = skip_enrich,
                    !.max_items = max_items, !.files0 = files]

Next ==
    \/ LoadEnv
    \/ LoadAndFilter
    \/ EnrichOne
    \/ EnrichReturn
    \/ BuildCall
    \/ RunChunkAttempt
    \/ StageSleep
    \/ BuildMap
    \/ BuildRecord
    \/ NoteAttempt
    \/ BuildReturn
    \/ StageReturned
    \/ Notify
    \/ SendPayload
    \/ SaveDigestCache
    \/ SaveProcessedIds
    \/ ErrorHandler

Spec == Init /\ [][Next]_vars

(***************************************************************************)
(* SpecLoad: load_bookmarks called twice on one file, for every file of    *)
(* the universe below and every answer of the network.                     *)
(***************************************************************************)
NonObject == [JsonItem("id", ID_9, <<"a">>, <<"0">>) EXCEPT !.obj = FALSE]
TextNotString == [JsonItem("id", ID_10, <<"a">>, <<"0">>) EXCEPT !.text_is_str = FALSE]
JsonItems ==
    {JsonItem("id", ID_9, <<"a">>, <<"0">>),
     JsonItem("id", ID_9, <<"b">>, <<"1", "2">>),
     JsonItem("id_str", ID_10, <<" ", "a", " ">>, <<"0">>),
     JsonItem("tweet_id", ID_10, <<"a">>, <<"a">>),
     JsonItem("none", <<>>, <<"a">>, <<"0">>),
     JsonItem("id", <<>>, <<"a">>, <<"0">>),
     NonObject, TextNotString}
RECURSIVE SeqsUpTo(_, _)
\* the sequences of length <= n over S
SeqsUpTo(S, n) ==
    IF n = 0 THEN {<<>>}
    ELSE {<<>>} \cup {<<x>> \o t : x \in S, t \in SeqsUpTo(S, n - 1)}
Row(id, Link, url, Text) == [id |-> id, Link |-> Link, url |-> url, Text |-> Text]
URL_10 == <<"x", STATUS, "1", "0">>
URL_9 == <<STATUS, "x", STATUS, "9", "x", "1">>
URL_NO_DIGITS == <<"x", STATUS, "x">>
CsvRows ==
    {Row(ID_9, <<>>, <<>>, <<"a">>),
     Row(ID_9, URL_10, URL_10, <<"b">>),
     Row(<<>>, URL_10, <<>>, <<>>),
     Row(<<>>, <<>>, URL_10, <<"a">>),
     Row(<<" ">>, URL_9, <<>>, <<"a">>),
     Row(<<>>, URL_NO_DIGITS, URL_NO_DIGITS, <<" ">>)}
CsvHeaders ==
    {<<"id", "Text">>, <<"Text", "Link">>, <<"Text", "url">>, <<"id", "Text", "Link", "url">>}
Extensions == {".json", ".csv", ".txt"}
LoadFiles ==
    {File(kind, ext, bom, ws, <<>>, <<>>, <<>>) :
        kind \in {"empty", "malformed", "nolist", "scalar"},
        ext \in Extensions, bom \in BOOLEAN, ws \in 0..MaxLeadingWs}
    \cup {File("missing", ext, FALSE, 0, <<>>, <<>>, <<>>) : ext \in Extensions}
    \cup {File("items", ext, bom, ws, items, <<>>, <<>>) :
            ext \in Extensions, bom \in BOOLEAN, ws \in 0..MaxLeadingWs,
            items \in SeqsUpTo(JsonItems, MaxRecords)}
    \cup {File("csv", ext, bom, ws, <<>>, cols, rows) :
            ext \in Extensions, bom \in BOOLEAN, ws \in 0..MaxLeadingWs,
            cols \in CsvHeaders, rows \in SeqsUpTo(CsvRows, MaxRecords)}

InitLoad ==
    /\ InitFiles(FileMissing)
    /\ cacheTrace = NoTrace
    /\ retry = RetryIdle
    /\ summ = SummIdle
    /\ effects = {}
    /\ \E file \in LoadFiles : run = [RunIdle EXCEPT !.pc = "loader", !.export = file]

\* load_bookmarks(filepath) called on the file, which no one changes meanwhile
LoadCall ==
    /\ run.pc = "loader"
    /\ Len(run.loads) < 2
    /\ \E net \in NetAnswers :
          run' = [run EXCEPT !.loads = Append(run.loads,
                                              [net |-> net,
                                               result |-> load_bookmarks(run.export, net)])]
    /\ UNCHANGED <<cacheVars, retry, summ, effects>>

NextLoad == LoadCall

SpecLoad == InitLoad /\ [][NextLoad]_vars

(***************************************************************************)
(* SpecEnrich: enrich_all_bookmarks under every pattern of failures and    *)
(* every number of search results.                                         *)
(***************************************************************************)
EnrichIds == <<ID_10, ID_9, ID_a, ID_1>>
EnrichBookmarkLists ==
    {[i \in 1..n |-> Bookmark(EnrichIds[i], <<"t">> \o EnrichIds[i], 0)] :
        n \in 0..Min(MaxRecords, Len(EnrichIds))}

InitEnrich ==
    /\ InitFiles(FileMissing)
    /\ cacheTrace = NoTrace
    /\ retry = RetryIdle
    /\ summ = SummIdle
    /\ effects = {}
    /\ \E bookmarks \in EnrichBookmarkLists :
          run = [RunIdle EXCEPT !.pc = "enrich", !.bookmarks = bookmarks, !.idx = 1,
                                !.new_count = Len(bookmarks), !.files0 = files]

EnrichAny ==
    EnrichStep({"raise", "none", "some", "many"},
               AllSearchOutcomes(MAX_WEB_RESULTS), AllSearchOutcomes(2))

NextEnrich == EnrichAny \/ EnrichReturn

SpecEnrich == InitEnrich /\ [][NextEnrich]_vars

(***************************************************************************)
(* SpecSummarize: build_enriched_bookmarks on any response text.           *)
(***************************************************************************)
EntryIds == {ID_9, ID_10, ID_1}
TokenAlphabet == {FENCE, LB, RB, COMMA, WORD, NUM} \cup {ENTRY(id) : id \in EntryIds}
FreeTexts == UNION {[1..n -> TokenAlphabet] : n \in 0..MaxTextLen}
RECURSIVE ArrayBody(_)
ArrayBody(entries) ==
    IF Len(entries) = 0 THEN <<>>
    ELSE IF Len(entries) = 1 THEN <<entries[1]>>
    ELSE <<entries[1], COMMA>> \o ArrayBody(Tail(entries))
ArrayTexts ==
    {<<LB>> \o ArrayBody(es) \o <<RB>> :
        es \in UNION {[1..n -> {ENTRY(id) : id \in EntryIds}] : n \in 0..MaxEntries}}
Frames == {<<>>, <<WORD>>, <<FENCE>>}
\* a JSON array of entries: bare, in a code fence, between prose, or cut before its "]"
FramedArrays ==
    {pre \o a \o post : pre \in Frames, a \in ArrayTexts, post \in Frames}
        \cup {pre \o SubSeq(a, 1, Len(a) - 1) : pre \in Frames, a \in ArrayTexts}
\* an array with an entry whose category is not among the categories of the prompt
UnlistedCategoryTexts ==
    {<<LB, ENTRY_OTHER_CATEGORY(ID_9), RB>>,
     <<LB, ENTRY(ID_10), COMMA, ENTRY_OTHER_CATEGORY(ID_9), RB>>}
ResponseTexts == FreeTexts \cup FramedArrays \cup UnlistedCategoryTexts

\* a text longer than both fallback lengths
LongText == [i \in 1..(ASSEMBLY_FALLBACK_LEN + 1) |-> "x"]
\* no record, one record with a long text, two records with short texts
SummBookmarkLists ==
    {<<>>, <<Bookmark(ID_9, LongText, 0)>>,
     <<Bookmark(ID_10, <<"t">> \o ID_10, 0), Bookmark(ID_9, <<"t">> \o ID_9, 0)>>}
\* the empty map, and the map of the first bookmark alone, with one web result
SummEnrichments(bookmarks) ==
    {<<>>}
    \cup {[id \in {bookmarks[i].id : i \in 1..Min(1, Len(bookmarks))} |->
             [keywords |-> <<"k">>, web_results |-> <<WebResult("web")>>]]}

InitSummarize ==
    /\ InitFiles(FileMissing)
    /\ cacheTrace = NoTrace
    /\ effects = {}
    /\ run = RunIdle
    /\ \E bookmarks \in SummBookmarkLists : \E enr \in SummEnrichments(bookmarks) :
          /\ summ = SummStart(bookmarks, enr)
          /\ retry = SummStartRetry(bookmarks)

SummChunkAttempt == ChunkAttempt(ResponseTexts)

NextSummarize ==
    \/ SummChunkAttempt
    \/ StageSleep
    \/ BuildMap
    \/ BuildRecord
    \/ NoteAttempt
    \/ BuildReturn

SpecSummarize == InitSummarize /\ [][NextSummarize]_vars

(***************************************************************************)
(* SpecRetry: with_retry around a function that may fail at any call.      *)
(***************************************************************************)
\* base_delay of the two decorated functions: 5.0 and 3.0 seconds
BaseDelays == {50, 30}
GenericOutcomes == {Returned(v) : v \in {"r1", "r2"}} \cup {Raised(k) : k \in ExceptionKinds}

InitRetry ==
    /\ InitFiles(FileMissing)
    /\ cacheTrace = NoTrace
    /\ \E R \in 0..MaxRetries : \E d \in BaseDelays : \E j \in BOOLEAN :
          retry = with_retry(R, d, j)
    /\ summ = SummIdle
    /\ effects = {}
    /\ run = RunIdle

RetryCall ==
    /\ retry.pc = "call"
    /\ \E out \in GenericOutcomes : \E pct \in JitterPercents :
          retry' = WithRetryAttempt(retry, out, pct)
    /\ UNCHANGED <<run, cacheVars, summ, effects>>

RetrySleep ==
    /\ retry.pc = "sleep"
    /\ retry' = WithRetrySleep(retry)
    /\ UNCHANGED <<run, cacheVars, summ, effects>>

NextRetry == RetryCall \/ RetrySleep

SpecRetry == InitRetry /\ [][NextRetry]_vars

(***************************************************************************)
(* SpecCache: the cache functions applied to any file content.             *)
(***************************************************************************)
\* any file a user or an earlier run may have left: no file, content that does not
\* load, the lists the program writes, and short lists in any order
CacheContents ==
    {FileMissing, FileCorrupt, FileNoIdsKey, FileIdsNull,
     FileIdsString(<<"a", "9">>), FileIdsString(<<>>), FileIdsObject(<<ID_10>>)}
        \cup {FileIds(s) : s \in InjSeqs(IdUniverse, 2)}
        \cup {FileIds(s) : s \in UNION {SortedDescending(S) : S \in SUBSET IdUniverse}}
\* the deduplicated lists load_bookmarks can return
ExportLists ==
    {[i \in 1..Len(s) |-> Bookmark(s[i], <<"t">>, 0)] : s \in InjSeqs(IdUniverse, MaxRecords)}

InitCache ==
    /\ \E c \in CacheContents : InitFiles(c)
    /\ cacheTrace = NoTrace
    /\ retry = RetryIdle
    /\ summ = SummIdle
    /\ effects = {}
    /\ run = RunIdle

\* run N: save_processed_ids(ids, PROCESSED_IDS_FILE)
CacheSave ==
    /\ cacheTrace.op # "filter"
    /\ cacheTrace.saves < MaxSaves
    /\ \E ids \in SUBSET IdUniverse :
       \E r \in save_processed_ids(ids, files[PROCESSED_IDS_FILE]) :
          /\ files' = [files EXCEPT ![PROCESSED_IDS_FILE] = r.content]
          /\ cacheTrace' = [op |-> "save", ids |-> ids,
                            all_ids |-> load_processed_ids(files[PROCESSED_IDS_FILE]) \cup ids,
                            beforeKind |-> files[PROCESSED_IDS_FILE].kind,
                            exc |-> r.exc, records |-> <<>>, out |-> <<>>,
                            saves |-> cacheTrace.saves + 1]

\* run N+1: filter_new_bookmarks(records, load_processed_ids(PROCESSED_IDS_FILE))
CacheFilter ==
    /\ cacheTrace.op = "save"
    /\ \E records \in ExportLists :
          cacheTrace' = [cacheTrace EXCEPT
              !.op = "filter",
              !.records = records,
              !.out = filter_new_bookmarks(records, load_processed_ids(files[PROCESSED_IDS_FILE]))]
    /\ UNCHANGED files

CacheSaveStep == CacheSave /\ UNCHANGED <<retry, summ, effects, run>>
CacheFilterStep == CacheFilter /\ UNCHANGED <<retry, summ, effects, run>>

NextCache == CacheSaveStep \/ CacheFilterStep

SpecCache == InitCache /\ [][NextCache]_vars

(***************************************************************************)
(* SpecChunks: the chunk loop of categorize_and_summarize on lists of up   *)
(* to MaxChunkRecords records, the Completion Service failing at will and  *)
(* answering with a text that holds no JSON.                               *)
(***************************************************************************)
DigitChar(n) == CHOOSE c \in Digits : DigitVal(c) = n
\* the decimal numeral of i as an identifier
NthId(i) == IF i < 10 THEN <<DigitChar(i)>> ELSE <<DigitChar(i \div 10), DigitChar(i % 10)>>
NumberedBookmarks(n) == [i \in 1..n |-> Bookmark(NthId(i), <<"t">>, 0)]
ChunkTexts == {<<>>, <<WORD>>}

InitChunks ==
    /\ InitFiles(FileMissing)
    /\ cacheTrace = NoTrace
    /\ effects = {}
    /\ run = RunIdle
    /\ \E n \in 0..MaxChunkRecords :
          /\ summ = SummStart(NumberedBookmarks(n), <<>>)
          /\ retry = SummStartRetry(NumberedBookmarks(n))

ChunkCall == ChunkAttempt(ChunkTexts)

NextChunks == ChunkCall \/ StageSleep

SpecChunks == InitChunks /\ [][NextChunks]_vars

(***************************************************************************)
(* SpecNotify: build_digest_blocks and send_to_slack on digests whose      *)
(* records carry an importance tier, as the tests assign it.               *)
(***************************************************************************)
DigestRecord(id, importance, category, like_count, url_len, summary_len, web_results) ==
    [bookmark |-> [id |-> id, text |-> <<"t">>, like_count |-> like_count,
                   url |-> <<Piece("url", id, url_len)>>,
                   author_username |-> <<Piece("user", id, 8)>>],
     category |-> category,
     summary |-> <<Piece("summary", id, summary_len)>>,
     keywords |-> <<>>,
     web_results |-> web_results,
     enrichment_summary |-> IF web_results = <<>> THEN <<>> ELSE <<Piece("note", id, 200)>>,
     importance |-> importance]
WebHit(title_len) ==
    [title |-> IF title_len = 0 THEN <<>> ELSE <<Piece("title", <<>>, title_len)>>,
     url |-> <<Piece("url", <<>>, 30)>>, snippet |-> <<>>]
RecordTemplates(id) ==
    <<DigestRecord(id, "high", "AI-Tech", 1234, 40, 300, <<WebHit(20), WebHit(60), WebHit(20)>>),
      DigestRecord(id, "high", "Other", 0, 40, 10, <<WebHit(20), WebHit(0), WebHit(20)>>),
      DigestRecord(id, "normal", "AI-Tech", 0, 40, 10, <<>>),
      DigestRecord(id, "normal", "AI-Tech", 7, 40, 300, <<>>),
      DigestRecord(id, "normal", "Other", 7, 2990, 10, <<>>),
      DigestRecord(id, "normal", "Other", 0, 2990, 10, <<>>),
      DigestRecord(id, "low", "Other", 0, 40, 0, <<>>),
      DigestRecord(id, "low", "AI-Tech", 0, 2990, 0, <<>>)>>
DigestResults ==
    {[i \in 1..Len(pick) |-> RecordTemplates(NthId(i))[pick[i]]] :
        pick \in UNION {[1..n -> 1..Len(RecordTemplates(<<>>))] : n \in 0..MaxDigestRecords}}
    \cup {[i \in 1..n |-> RecordTemplates(NthId(i))[2]] : n \in 40..MaxHighRecords}
    \cup {[i \in 1..n |-> RecordTemplates(NthId(i))[4]] : n \in 16..MaxCategoryRecords}

InitNotify ==
    /\ InitFiles(FileMissing)
    /\ cacheTrace = NoTrace
    /\ retry = RetryIdle
    /\ summ = SummIdle
    /\ effects = {}
    /\ \E result \in DigestResults :
          run = [RunIdle EXCEPT !.pc = "notify", !.result = result]

NextNotify == Notify \/ SendPayload

SpecNotify == InitNotify /\ [][NextNotify]_vars

(***************************************************************************)
(* SpecRuns: consecutive runs of main.py on one export file that no one    *)
(* changes.  Each run chooses its command line, always with --skip-enrich; *)
(* the files of processed IDs are what the earlier runs left.              *)
(***************************************************************************)
RunsExports == {ExportItems(<<ID_9>>), ExportItems(<<ID_10, ID_9>>)}
RunsCaches == {FileMissing, FileIds(<<ID_9>>)}
RunsMaxItems == {0, 1, DEFAULT_MAX_ITEMS}
\* the ids the run handed to the Completion Service, when every external call succeeded
DigestedBy(r) ==
    IF /\ r.processed_ids_file = PROCESSED_IDS_FILE
       /\ summ.pc = "done"
       /\ effects = {}
       /\ \A i \in 1..Len(r.sent) : r.sent[i] = "accepted"
    THEN {r.bookmarks[i].id : i \in 1..Len(r.bookmarks)}
    ELSE {}

InitRuns ==
    /\ \E c \in RunsCaches : \E nc \in RunsCaches :
          files = [p \in Paths |-> IF p = PROCESSED_IDS_FILE THEN c ELSE nc]
    /\ cacheTrace = NoTrace
    /\ retry = RetryIdle
    /\ summ = SummIdle
    /\ effects = {}
    /\ \E export \in RunsExports : run = [RunIdle EXCEPT !.export = export]

\* the __main__ block: parse_args, the choice of proc_file, run_digest(...)
StartRun ==
    /\ run.pc \in {"idle", "ended"}
    /\ run.runs < MaxRuns
    /\ \E no_cache \in BOOLEAN : \E dry_run \in BOOLEAN : \E max_items \in RunsMaxItems :
          run' = [RunIdle EXCEPT
                    !.pc = "env", !.export = run.export,
                    !.processed_ids_file = IF no_cache THEN NO_CACHE_FILE ELSE PROCESSED_IDS_FILE,
                    !.dry_run = dry_run, !.skip_enrich = TRUE,
                    !.max_items = max_items, !.files0 = files,
                    !.runs = run.runs + 1,
                    !.digested = run.digested \cup DigestedBy(run)]
    /\ retry' = RetryIdle
    /\ summ' = SummIdle
    /\ effects' = {}
    /\ UNCHANGED cacheVars

NextRuns ==
    \/ StartRun
    \/ LoadEnv
    \/ LoadAndFilter
    \/ BuildCall
    \/ RunChunkAttempt
    \/ StageSleep
    \/ BuildMap
    \/ BuildRecord
    \/ BuildReturn
    \/ StageReturned
    \/ Notify
    \/ SendPayload
    \/ SaveDigestCache
    \/ SaveProcessedIds
    \/ ErrorHandler

SpecRuns == InitRuns /\ [][NextRuns]_vars

(***************************************************************************)
(* SpecWatcher: the polling loop of watcher.py.  The variable run holds    *)
(* the watcher process and the three copies of bookmarks.json: dest in the *)
(* working tree, head in the local branch, remote on origin/main.  A CSV   *)
(* content is named by a string, "none" when the folder holds no CSV.      *)
(***************************************************************************)
WatchedCsvs == {"csv1", "csv2"}
\* SHA-256 of the file content; "" is <<>>
file_hash(content) == <<"sha256", content>>
\* what push_to_github writes to DEST_FILE: the records of the CSV, their texts filled in
\* by the network or not
Converted(csv, texts) == [csv |-> csv, texts |-> texts]
NoJson == Converted("none", "none")
\* the outcomes of the steps of one push_to_github call
GitOutcomes ==
    [convert : {"raise", "filled", "unfilled"}, add : BOOLEAN, commit : BOOLEAN,
     push : BOOLEAN, rebase : BOOLEAN, repush : BOOLEAN]

push_to_github(w, csv, o) ==
    LET dest == IF o.convert = "raise" THEN w.dest ELSE Converted(csv, o.convert)
        keep == [success |-> FALSE, dest |-> dest, head |-> w.head, remote |-> w.remote]
    IN  IF o.convert = "raise" \/ ~o.add THEN keep
        \* git diff --staged --quiet: the index equals the local HEAD
        ELSE IF dest = w.head THEN [keep EXCEPT !.success = TRUE]
        ELSE IF ~o.commit THEN keep
        ELSE IF o.push \/ (o.rebase /\ o.repush)
        THEN [success |-> TRUE, dest |-> dest, head |-> dest, remote |-> dest]
        ELSE [keep EXCEPT !.head = dest]

WatcherStart ==
    [pc |-> "watch", csv |-> "none", last_hash |-> <<>>, hash_file |-> <<>>,
     dest |-> NoJson, head |-> NoJson, remote |-> NoJson,
     called |-> FALSE, success |-> FALSE]

InitWatcher ==
    /\ InitFiles(FileMissing)
    /\ cacheTrace = NoTrace
    /\ retry = RetryIdle
    /\ summ = SummIdle
    /\ effects = {}
    /\ run = WatcherStart

\* the browser extension saves an export into WATCH_DIR
NewCsv ==
    /\ \E c \in WatchedCsvs : c # run.csv /\ run' = [run EXCEPT !.csv = c]
    /\ UNCHANGED <<cacheVars, retry, summ, effects>>

\* one pass of the while loop of main()
Poll ==
    /\ IF run.csv = "none" \/ file_hash(run.csv) = run.last_hash
       THEN run' = [run EXCEPT !.called = FALSE, !.success = FALSE]
       ELSE \E o \in GitOutcomes :
               LET r == push_to_github(run, run.csv, o)
               IN  run' = [run EXCEPT
                              !.called = TRUE, !.success = r.success,
                              !.dest = r.dest, !.head = r.head, !.remote = r.remote,
                              !.last_hash = IF r.success THEN file_hash(run.csv) ELSE @,
                              !.hash_file = IF r.success THEN file_hash(run.csv) ELSE @]
    /\ UNCHANGED <<cacheVars, retry, summ, effects>>

\* the watcher is stopped and started again: last_hash = load_last_hash()
Restart ==
    /\ run' = [run EXCEPT !.last_hash = run.hash_file, !.called = FALSE, !.success = FALSE]
    /\ UNCHANGED <<cacheVars, retry, summ, effects>>

NextWatcher == NewCsv \/ Poll \/ Restart

SpecWatcher == InitWatcher /\ [][NextWatcher]_vars

(***************************************************************************)
(* Claims on the processed-ID cache, checked under SpecCache.              *)
(***************************************************************************)
Parseable(x) == int(x).exc = "none"
SaveReturned == cacheTrace.op = "save" /\ cacheTrace.exc = "none"
Persisted == files[PROCESSED_IDS_FILE].ids
Evicted == cacheTrace.all_ids \ Range(Persisted)
OutIds == {cacheTrace.out[i].id : i \in 1..Len(cacheTrace.out)}
RecordIds == {cacheTrace.records[i].id : i \in 1..Len(cacheTrace.records)}

\* C4 as stated: whatever the prior cache content, the filter of the run after a save
\* returns no record whose identifier that save was given.
C4_Original ==
    (cacheTrace.op = "filter" /\ cacheTrace.exc = "none") => OutIds \cap cacheTrace.ids = {}

\* C4 (amended): when the union of the prior cache content and run 1's identifiers is
\* within the ceiling, the filter of run 2 returns no record whose identifier run 1 saved.
C4_WatermarkWithinCeiling ==
    (/\ cacheTrace.op = "filter"
     /\ cacheTrace.exc = "none"
     /\ Cardinality(cacheTrace.all_ids) <= MAX_PROCESSED_IDS)
        => OutIds \cap cacheTrace.ids = {}

C4_Witness ==
    /\ cacheTrace.op = "filter"
    /\ cacheTrace.exc = "none"
    /\ Cardinality(cacheTrace.all_ids) <= MAX_PROCESSED_IDS
    /\ RecordIds \cap cacheTrace.ids # {}
    /\ Len(cacheTrace.out) = 1
    /\ Len(cacheTrace.records) = 2

\* C9: after save_processed_ids returns, the persisted list holds at most the ceiling,
\* exactly the ceiling when the union exceeds it, no identifier twice and none from
\* outside the union; every kept integer identifier is numerically at least every
\* evicted one, and the integer identifiers of the list are in descending order.
C9_CacheBounding ==
    SaveReturned =>
        /\ files[PROCESSED_IDS_FILE].kind = "ids"
        /\ Len(Persisted) <= MAX_PROCESSED_IDS
        /\ Cardinality(cacheTrace.all_ids) > MAX_PROCESSED_IDS => Len(Persisted) = MAX_PROCESSED_IDS
        /\ Range(Persisted) \subseteq cacheTrace.all_ids
        /\ Cardinality(Range(Persisted)) = Len(Persisted)
        /\ \A k \in Range(Persisted) : \A e \in Evicted :
              (Parseable(k) /\ Parseable(e)) => int(k).v >= int(e).v
        /\ \A i \in 1..Len(Persisted) : \A j \in 1..Len(Persisted) :
              (i < j /\ Parseable(Persisted[i]) /\ Parseable(Persisted[j]))
                  => int(Persisted[i]).v >= int(Persisted[j]).v

\* "10" ranks above "9": both were in a union over the ceiling and "9" went first
C9_Witness ==
    /\ SaveReturned
    /\ cacheTrace.beforeKind = "ids"
    /\ Cardinality(cacheTrace.all_ids) > MAX_PROCESSED_IDS
    /\ {ID_9, ID_10, ID_1} \subseteq cacheTrace.all_ids
    /\ Persisted = <<ID_10, ID_9>>

\* C10 as stated: save never fails on an unparseable identifier, and no unparseable
\* identifier is kept while an integer identifier is evicted.
C10_Original ==
    cacheTrace.op = "save" =>
        /\ cacheTrace.exc = "none"
        /\ (\E e \in Evicted : Parseable(e))
              => \A u \in Range(Persisted) : Parseable(u)

\* C10 (amended): an unparseable identifier sorts as 0: save never fails on it, and no
\* unparseable identifier is kept while an identifier of positive value is evicted.
C10_UnparseableSortsAsZero ==
    cacheTrace.op = "save" =>
        /\ cacheTrace.exc = "none"
        /\ (\E e \in Evicted : Parseable(e) /\ int(e).v > 0)
              => \A u \in Range(Persisted) : Parseable(u)

\* a positive identifier and an unparseable one both had to go
C10_Witness ==
    /\ SaveReturned
    /\ ID_a \in Evicted
    /\ ID_1 \in Evicted
    /\ Persisted = <<ID_10, ID_9>>

\* the contents the claim about tolerance calls corrupt, and a missing file
NotAnIdsList == {"missing", "corrupt", "noIdsKey", "idsNull", "idsString", "idsObject"}
\* the step is a call of save_processed_ids
SaveCall == cacheTrace'.op = "save" /\ cacheTrace'.saves = cacheTrace.saves + 1

\* C16 as stated: load_processed_ids returns the empty set whenever the file is missing
\* or its content is no JSON object with an "ids" array.
C16_Original ==
    [][(SaveCall /\ files[PROCESSED_IDS_FILE].kind \in NotAnIdsList)
           => cacheTrace'.all_ids = cacheTrace'.ids]_vars

\* C16: load_processed_ids never raises; it returns the empty set when the file is
\* missing, is not JSON, has a top-level value without .get, has no "ids" key or has an
\* "ids" value that set() rejects (null, a number); for an "ids" string it returns the
\* set of the string's characters and for an "ids" object the set of its keys.
C16_LoadTolerant ==
    [][SaveCall =>
          LET content == files[PROCESSED_IDS_FILE]
              existing == IF content.kind \in {"missing", "corrupt", "noIdsKey", "idsNull"}
                          THEN {}
                          ELSE IF content.kind = "idsString"
                          THEN {<<c>> : c \in Range(content.ids)}
                          ELSE Range(content.ids)
          IN  /\ cacheTrace'.exc = "none"
              /\ cacheTrace'.all_ids = existing \cup cacheTrace'.ids]_vars
C16_Witness ==
    /\ cacheTrace.op = "save"
    /\ cacheTrace.saves = 1
    /\ cacheTrace.beforeKind = "idsString"
    /\ cacheTrace.ids = {}
    /\ cacheTrace.all_ids = {ID_a, ID_9}

\* C17: when the union of the persisted set and the identifiers given is within the
\* ceiling, load_processed_ids after save_processed_ids returns that union: no persisted
\* identifier is removed, and a save of identifiers already persisted changes nothing.
C17_SaveIsUnion ==
    [][(SaveCall /\ cacheTrace'.exc = "none"
          /\ Cardinality(load_processed_ids(files[PROCESSED_IDS_FILE]) \cup cacheTrace'.ids)
                <= MAX_PROCESSED_IDS)
         => /\ load_processed_ids(files'[PROCESSED_IDS_FILE])
                  = load_processed_ids(files[PROCESSED_IDS_FILE]) \cup cacheTrace'.ids
            /\ cacheTrace'.ids \subseteq load_processed_ids(files[PROCESSED_IDS_FILE])
                  => load_processed_ids(files'[PROCESSED_IDS_FILE])
                        = load_processed_ids(files[PROCESSED_IDS_FILE])]_vars
\* the second of two saves of the same identifiers, within the ceiling
C17_Witness ==
    /\ SaveReturned
    /\ cacheTrace.saves = 2
    /\ cacheTrace.beforeKind = "ids"
    /\ cacheTrace.ids # {}
    /\ cacheTrace.all_ids = Range(Persisted)
    /\ Cardinality(cacheTrace.all_ids) = MAX_PROCESSED_IDS

(***************************************************************************)
(* Claims on the retry decorator, checked under SpecRetry.                 *)
(***************************************************************************)
Calls == SelectSeq(retry.log, LAMBDA ev : ev.ev = "call")
Sleeps == SelectSeq(retry.log, LAMBDA ev : ev.ev = "sleep")
AllAttemptsFailed ==
    /\ retry.pc = "raised"
    /\ \A i \in 1..Len(Calls) : ~Calls[i].ok /\ Calls[i].exc.kind \in QualifyingKinds
LastEvent == retry.log[Len(retry.log)]
\* a sleep has a call right before it and a call right after it, and two consecutive
\* calls have a sleep between them
SleepsOnlyBetweenAttempts ==
    /\ Len(retry.log) > 0
    /\ retry.log[1].ev = "call"
    /\ LastEvent.ev = "call"
    /\ \A i \in 1..(Len(retry.log) - 1) : retry.log[i].ev # retry.log[i + 1].ev

\* C8 as stated: with max retries R and every attempt failing, the wrapper re-raises
\* after R failed attempts.
C8_Original ==
    AllAttemptsFailed => Len(Calls) = retry.max_retries

\* C8 (amended): with max retries R and every attempt failing, the wrapper re-raises
\* after R + 1 failed attempts (the first call and R retries); the exception raised is
\* that of the last attempt, unchanged; sleeps occur between consecutive attempts
\* only; an attempt that succeeds ends the wrapper with its result, no call or sleep
\* after it.
C8_RetryExhaustion ==
    /\ AllAttemptsFailed =>
          /\ Len(Calls) = retry.max_retries + 1
          /\ Len(Sleeps) = retry.max_retries
          /\ retry.exc = LastEvent.exc
          /\ retry.exc.attempt = retry.max_retries
          /\ SleepsOnlyBetweenAttempts
    /\ retry.pc = "returned" =>
          /\ LastEvent.ok
          /\ retry.result = LastEvent.value
          /\ \A i \in 1..(Len(retry.log) - 1) : ~retry.log[i].ok
          /\ SleepsOnlyBetweenAttempts
          /\ Len(Calls) <= retry.max_retries + 1
    /\ retry.pc \in {"returned", "raised"} => ~ENABLED NextRetry

\* three retries exhausted: four calls, three sleeps, the exceptions differ in kind
C8_Witness ==
    /\ AllAttemptsFailed
    /\ retry.max_retries = 3
    /\ Len(Calls) = 4
    /\ Calls[1].exc.kind # Calls[4].exc.kind

(***************************************************************************)
(* Claims about batch summarization (SpecSummarize)                        *)
(***************************************************************************)
\* _summarize_chunk returned for the chunk in hand
ChunkReturned == summ.rung # "none"
ChunkIds == {summ.bookmarks[i].id : i \in 1..Len(summ.bookmarks)}
\* v is a list of entries, one per record of the chunk: none missing, duplicated, foreign
OneEntryPerRecord(v, bookmarks) ==
    /\ v.t = "list"
    /\ \A i \in 1..Len(v.items) : v.items[i].t = "obj"
    /\ Len(v.items) = Len(bookmarks)
    /\ \A b \in 1..Len(bookmarks) :
          Cardinality({i \in 1..Len(v.items) : v.items[i].id = bookmarks[b].id}) = 1

\* C5 as stated: for any response text the stage returns exactly one summary entry per
\* record of the chunk.
C5_Original == ChunkReturned => OneEntryPerRecord(summ.summaries, summ.bookmarks)

\* C5: when no rung of the ladder parses a JSON value out of the response text, the stage
\* returns exactly one default entry per record of the chunk, in the chunk's order, with
\* category Other and the text's first 80 characters plus an ellipsis; and whenever
\* assembly completes, it returns exactly one EnrichedBookmark per input record, in order.
C5_DefaultRungTotality ==
    /\ (ChunkReturned /\ summ.rung = "default") =>
          /\ OneEntryPerRecord(summ.summaries, summ.bookmarks)
          /\ \A i \in 1..Len(summ.bookmarks) :
                /\ summ.summaries.items[i].id = summ.bookmarks[i].id
                /\ summ.summaries.items[i].category = "Other"
                /\ summ.summaries.items[i].summary =
                      PySlicePrefix(summ.bookmarks[i].text, 80) \o <<ELLIPSIS>>
    /\ summ.pc = "done" =>
          /\ Len(summ.enriched) = Len(summ.bookmarks)
          /\ \A i \in 1..Len(summ.bookmarks) : summ.enriched[i].bookmark = summ.bookmarks[i]
C5_Witness ==
    /\ ChunkReturned
    /\ summ.rung = "default"
    /\ Len(summ.bookmarks) = 2
    /\ Len(summ.text) > 0

\* C6 as stated: for any response text, summarization followed by assembly completes
\* without raising (only an exhausted retry of the call itself may end the stage).
C6_NeverRaisesOnResponse == summ.pc = "raised" => summ.exc = "APIError"
\* the loop of build_enriched_bookmarks is running or has ended
Assembling == summ.pc \in {"record", "note", "done"}
\* C22: build_enriched_bookmarks returns one EnrichedBookmark per input record, in input
\* order and holding that record, for any summary map and any enrichment map; a record
\* absent from the summary map gets category Other and the first 100 characters of its
\* own text followed by the ellipsis, a record present its entry's category and summary;
\* a record absent from the enrichment map gets no keywords and no web results.
C22_Assembly ==
    Assembling =>
        /\ summ.pc = "done" => Len(summ.enriched) = Len(summ.bookmarks)
        /\ Len(summ.enriched) <= Len(summ.bookmarks)
        /\ \A i \in 1..Len(summ.enriched) :
              LET bm == summ.bookmarks[i]
                  rec == summ.enriched[i]
              IN  /\ rec.bookmark = bm
                  /\ bm.id \notin DOMAIN summ.summary_map =>
                        /\ rec.category = "Other"
                        /\ rec.summary = SubSeq(bm.text, 1, Min(Len(bm.text), 100)) \o <<"...">>
                  /\ bm.id \in DOMAIN summ.summary_map =>
                        /\ rec.category = summ.summary_map[bm.id].category
                        /\ rec.summary = summ.summary_map[bm.id].summary
                  /\ bm.id \notin DOMAIN summ.enrichment_data =>
                        rec.keywords = <<>> /\ rec.web_results = <<>>
                  /\ bm.id \in DOMAIN summ.enrichment_data =>
                        /\ rec.keywords = summ.enrichment_data[bm.id].keywords
                        /\ rec.web_results = summ.enrichment_data[bm.id].web_results
C22_Witness ==
    /\ summ.pc = "done"
    /\ Len(summ.enriched) = 1
    /\ Len(summ.bookmarks[1].text) > 100
    /\ summ.bookmarks[1].id \notin DOMAIN summ.summary_map
    /\ summ.bookmarks[1].id \notin DOMAIN summ.enrichment_data
    /\ Len(summ.enriched[1].summary) = 101

\* C23 as stated: the category of every EnrichedBookmark is one of DEFAULT_CATEGORIES,
\* whatever categories the response of the Completion Service names.
C23_ClosedCategories ==
    \A i \in 1..Len(summ.enriched) : summ.enriched[i].category \in DEFAULT_CATEGORIES

(***************************************************************************)
(* Claims about the pipeline (Spec)                                        *)
(***************************************************************************)
RunEnded == run.pc = "ended"
\* every message of the run's digest was accepted by the Notification Service
DigestDelivered ==
    /\ \A i \in 1..Len(run.sent) : run.sent[i] = "accepted"
    /\ ~run.dry_run => (run.messages >= 1 /\ Len(run.sent) = run.messages)
RunFailed == run.exc # "none"

DigestedIds == {run.bookmarks[i].id : i \in 1..Len(run.bookmarks)}
\* loading, filtering, enrichment, summarization and every Notification Service call
\* succeeded
EverythingSucceeded ==
    /\ run.env_ok
    /\ run.export.kind \in {"empty", "items"}
    /\ effects = {}
    /\ summ.pc = "done"
    /\ \A i \in 1..Len(run.sent) : run.sent[i] = "accepted"
    /\ run.error_sent \in {"none", "accepted"}

\* C2 as stated: a run with at least one new record in which every stage and every
\* Notification Service call succeeded terminates normally with the identifier of every
\* digested record in the persisted processed set.
C2_SuccessPersists ==
    (RunEnded /\ EverythingSucceeded /\ Len(run.bookmarks) >= 1) =>
        /\ run.exit = "return"
        /\ DigestedIds \subseteq load_processed_ids(files[run.processed_ids_file])

\* C3 as stated: every EnrichedBookmark that build_enriched_bookmarks produced carries an
\* importance tier, one of high / normal / low.
C3_ImportanceTier ==
    \A i \in 1..Len(summ.enriched) :
        /\ HasImportance(summ.enriched[i])
        /\ summ.enriched[i].importance \in IMPORTANCE_LABEL

UnwrappedSites == {"extract_keywords", "search_duckduckgo", "_send_payload"}
EnrichReturned == run.pc = "build" /\ ~run.skip_enrich
CallsOf(i) == run.enrich_log[i].calls
CallNames(i) == {CallsOf(i)[j].ev : j \in 1..Len(CallsOf(i))}
CallNamed(i, ev) == CallsOf(i)[CHOOSE j \in 1..Len(CallsOf(i)) : CallsOf(i)[j].ev = ev]
ACallFailed(i) == \E j \in 1..Len(CallsOf(i)) : ~CallsOf(i)[j].ok
ResultOf(i) == run.enrichment_data[run.enrich_log[i].id]
\* every record processed, in input order, one entry per input identifier
OneEntryPerInputId ==
    /\ Len(run.enrich_log) = Len(run.bookmarks)
    /\ \A i \in 1..Len(run.bookmarks) : run.enrich_log[i].id = run.bookmarks[i].id
    /\ DOMAIN run.enrichment_data = {run.bookmarks[i].id : i \in 1..Len(run.bookmarks)}

\* C18 as stated: enrich_all_bookmarks returns one entry per input identifier, and a
\* record for which an external call failed maps to the empty enrichment result.
C18_Original ==
    EnrichReturned =>
        /\ OneEntryPerInputId
        /\ \A i \in 1..Len(run.enrich_log) : ACallFailed(i) => ResultOf(i) = NoEnrichment

\* C18: under every pattern of failures enrich_all_bookmarks returns, having processed
\* every record in input order, a map with exactly one entry per input identifier; a
\* record maps to the empty enrichment result exactly when keyword extraction failed or
\* found no keyword; a record whose search failed keeps its keywords and the results
\* the searches delivered before failing.
C18_FailureIsolation ==
    EnrichReturned =>
        /\ OneEntryPerInputId
        /\ \A i \in 1..Len(run.enrich_log) :
              /\ ResultOf(i) = NoEnrichment <=> CallsOf(i)[1].n = 0
              /\ ~CallsOf(i)[1].ok => ResultOf(i) = NoEnrichment
              /\ CallsOf(i)[1].n > 0 =>
                    /\ Len(ResultOf(i).keywords) = CallsOf(i)[1].n
                    /\ Len(ResultOf(i).web_results) =
                          Min(MAX_WEB_RESULTS,
                              CallNamed(i, "search_duckduckgo").n
                              + (IF "search_xcom_via_web" \in CallNames(i)
                                 THEN CallNamed(i, "search_xcom_via_web").n ELSE 0))
C18_Witness ==
    /\ EnrichReturned
    /\ Len(run.enrich_log) = 2
    /\ ~CallsOf(1)[1].ok
    /\ "search_duckduckgo" \in CallNames(2)
    /\ ~CallNamed(2, "search_duckduckgo").ok
    /\ ResultOf(2) # NoEnrichment

\* C19: for a record with at least one keyword the site-restricted query, built from
\* the first two keywords, is issued exactly when the first query returned fewer than 2
\* results; its results follow those of the first query; no record has more than
\* MAX_WEB_RESULTS web results.
C19_SecondQuery ==
    \A i \in 1..Len(run.enrich_log) :
        /\ Len(ResultOf(i).web_results) <= MAX_WEB_RESULTS
        /\ CallsOf(i)[1].n > 0 =>
              LET first == CallNamed(i, "search_duckduckgo")
              IN  /\ "search_xcom_via_web" \in CallNames(i) <=> first.n < 2
                  /\ first.query = ResultOf(i).keywords
                  /\ first.n >= 2 =>
                        ResultOf(i).web_results = [k \in 1..first.n |-> WebResult("web")]
                  /\ first.n < 2 =>
                        LET second == CallNamed(i, "search_xcom_via_web")
                        IN  /\ second.query =
                                  Append(PySlicePrefix(ResultOf(i).keywords, 2), SITE_X)
                            /\ ResultOf(i).web_results =
                                  [k \in 1..(first.n + second.n) |->
                                      WebResult(IF k <= first.n THEN "web" ELSE "x")]
C19_Witness ==
    \E i \in 1..Len(run.enrich_log) :
        /\ Len(ResultOf(i).keywords) = 3
        /\ "search_xcom_via_web" \in CallNames(i)
        /\ CallNamed(i, "search_duckduckgo").n = 1
        /\ CallNamed(i, "search_xcom_via_web").n = 2

LastCall(i) == CallsOf(i)[Len(CallsOf(i))]
\* C20 as stated: the delay follows the enrichment of every record, whatever its outcome.
C20_Original == \A i \in 1..Len(run.enrich_log) : LastCall(i).ev = "sleep"

\* C20: the delay of SEARCH_INTERVAL_SEC is the last step of enrich_bookmark exactly for
\* the records for which a keyword was extracted, whatever the outcome of their
\* searches; a record without keywords (none found, or extraction failed) is followed
\* by no delay.
C20_DelayAfterSearch ==
    \A i \in 1..Len(run.enrich_log) :
        /\ LastCall(i).ev = "sleep" <=> CallsOf(i)[1].n > 0
        /\ \A j \in 1..(Len(CallsOf(i)) - 1) : CallsOf(i)[j].ev # "sleep"
C20_Witness ==
    /\ Len(run.enrich_log) = 2
    /\ CallNames(1) = {"extract_keywords"}
    /\ "search_duckduckgo" \in CallNames(2)
    /\ ~CallNamed(2, "search_duckduckgo").ok
    /\ LastCall(2).ev = "sleep"

(***************************************************************************)
(* Claims about load_bookmarks (SpecLoad)                                  *)
(***************************************************************************)
Loads == 1..Len(run.loads)
ResultOfLoad(k) == run.loads[k].result
\* the first character of the text that is no whitespace ("": there is none)
FirstNonWhitespace(file) ==
    IF file.kind = "empty" THEN ""
    ELSE IF file.kind \in {"items", "malformed"} THEN "["
    ELSE IF file.kind = "nolist" THEN "{"
    ELSE IF file.kind = "scalar" THEN "5"
    ELSE "c"
ParserSelected(k) == ResultOfLoad(k).parser # "none"

\* C11 as stated: the parser follows the first non-whitespace character of the content,
\* for every extension and any amount of leading whitespace.
C11_Original ==
    \A k \in Loads :
        (ParserSelected(k) /\ FirstNonWhitespace(run.export) # "") =>
            (ResultOfLoad(k).parser = "json" <=> FirstNonWhitespace(run.export) \in {"[", "{"})

\* C11: a .csv extension always selects the delimited-text parser; under any other
\* extension the very first character of the content (after a byte order mark) decides:
\* "[", "{" or a whitespace character selects the JSON parser, whatever follows the
\* whitespace, and any other character selects the delimited-text parser.
C11_ParserSelection ==
    \A k \in Loads :
        ParserSelected(k) =>
            (ResultOfLoad(k).parser = "json" <=>
                /\ run.export.ext # ".csv"
                /\ \/ run.export.ws > 0
                   \/ FirstNonWhitespace(run.export) \in {"[", "{", ""})
C11_Witness ==
    /\ run.export.kind = "csv"
    /\ run.export.ext = ".txt"
    /\ run.export.ws > 0
    /\ Len(run.loads) = 1
    /\ ResultOfLoad(1).parser = "json"
    /\ ResultOfLoad(1).exc = "JSONDecodeError"

\* the list the selected parser returned, before the loop over seen_ids
ParsedList(k) ==
    IF ResultOfLoad(k).parser = "csv" THEN _load_from_csv(run.export, run.loads[k].net).bookmarks
    ELSE IF ResultOfLoad(k).parser = "json" /\ ResultOfLoad(k).exc = "none"
         THEN _load_from_json(run.export).bookmarks
    ELSE <<>>
FirstIndex(list, id) == CHOOSE i \in 1..Len(list) : list[i].id = id /\ \A j \in 1..(i - 1) : list[j].id # id
\* no two records share an identifier, every parsed identifier is present with the
\* field values of its first occurrence, in the order of the first occurrences
FirstOccurrenceWins(k) ==
    LET out == ResultOfLoad(k).bookmarks
        parsed == ParsedList(k)
    IN  /\ \A i, j \in 1..Len(out) : i # j => out[i].id # out[j].id
        /\ {out[i].id : i \in 1..Len(out)} = {parsed[i].id : i \in 1..Len(parsed)}
        /\ \A i \in 1..Len(out) : out[i] = parsed[FirstIndex(parsed, out[i].id)]
        /\ \A i, j \in 1..Len(out) :
              i < j => FirstIndex(parsed, out[i].id) < FirstIndex(parsed, out[j].id)

\* C12 as stated: first occurrence wins for both formats, and two loads of the same file
\* return identical lists.
C12_Original ==
    /\ \A k \in Loads : FirstOccurrenceWins(k)
    /\ Len(run.loads) = 2 => ResultOfLoad(1) = ResultOfLoad(2)

\* C12: first occurrence wins for both formats; two loads of the same file return
\* identical lists when the JSON parser read it, and when the delimited-text parser read
\* it and the network gave the same answers during both loads: the text and like count
\* of a row without text are what the network answered during that load.
C12_DedupAndRepeat ==
    /\ \A k \in Loads : FirstOccurrenceWins(k)
    /\ Len(run.loads) = 2 =>
          /\ ResultOfLoad(1).parser # "csv" => ResultOfLoad(1) = ResultOfLoad(2)
          /\ run.loads[1].net = run.loads[2].net => ResultOfLoad(1) = ResultOfLoad(2)
          /\ [i \in 1..Len(ResultOfLoad(1).bookmarks) |-> ResultOfLoad(1).bookmarks[i].id]
                = [i \in 1..Len(ResultOfLoad(2).bookmarks) |-> ResultOfLoad(2).bookmarks[i].id]
C12_Witness ==
    /\ Len(run.loads) = 2
    /\ ResultOfLoad(1).parser = "csv"
    /\ Len(ParsedList(1)) > Len(ResultOfLoad(1).bookmarks)
    /\ ResultOfLoad(1).bookmarks # <<>>
    /\ ResultOfLoad(1) # ResultOfLoad(2)

\* an element that is no object, has no identifier under any alias, or holds a value
\* that cannot be converted
Offending(item) ==
    \/ ~item.obj
    \/ item.key = "none"
    \/ item.id = <<>>
    \/ ~item.text_is_str
    \/ int(item.like_count).exc # "none"
\* C13 as stated: a JSON array loads without failure, exactly its offending elements
\* are dropped, and no returned record, from a JSON array or from delimited text, has an
\* empty identifier.
C13_ArrayTolerance ==
    \A k \in Loads :
        /\ \A i \in 1..Len(ResultOfLoad(k).bookmarks) : ResultOfLoad(k).bookmarks[i].id # <<>>
        /\ run.export.kind = "items" =>
              /\ ResultOfLoad(k).exc = "none"
              /\ {ResultOfLoad(k).bookmarks[i].id : i \in 1..Len(ResultOfLoad(k).bookmarks)}
                    = {run.export.items[i].id :
                          i \in {j \in 1..Len(run.export.items) : ~Offending(run.export.items[j])}}

ValueErrors == {"ValueError", "JSONDecodeError"}
\* a file whose text is one JSON value that is no array
NotAnArray(file) == file.kind \in {"nolist", "scalar"}
\* C14 as stated: a missing file raises FileNotFoundError, a file of 0 bytes returns the
\* empty list, a file whose JSON value is no array raises ValueError, and none returns a
\* record.
C14_Original ==
    \A k \in Loads :
        /\ run.export.kind = "missing" =>
              ResultOfLoad(k).exc = "FileNotFoundError" /\ ResultOfLoad(k).bookmarks = <<>>
        /\ (run.export.kind # "missing" /\ FileSize(run.export) = 0) =>
              ResultOfLoad(k).exc = "none" /\ ResultOfLoad(k).bookmarks = <<>>
        /\ NotAnArray(run.export) =>
              ResultOfLoad(k).exc \in ValueErrors /\ ResultOfLoad(k).bookmarks = <<>>

\* C14: a missing file raises FileNotFoundError; a file of 0 bytes returns the empty
\* list; a file whose JSON value is no array raises ValueError exactly when the JSON
\* parser is selected for it, and is otherwise (a .csv extension, or a value that starts
\* at the first character with neither "[" nor "{") read as delimited text, which
\* returns the empty list without error; no record is returned in any of these cases.
C14_DegenerateInputs ==
    \A k \in Loads :
        /\ run.export.kind = "missing" =>
              ResultOfLoad(k).exc = "FileNotFoundError" /\ ResultOfLoad(k).bookmarks = <<>>
        /\ (run.export.kind # "missing" /\ FileSize(run.export) = 0) =>
              ResultOfLoad(k).exc = "none" /\ ResultOfLoad(k).bookmarks = <<>>
        /\ NotAnArray(run.export) =>
              /\ ResultOfLoad(k).bookmarks = <<>>
              /\ ResultOfLoad(k).parser = "json" => ResultOfLoad(k).exc \in ValueErrors
              /\ (ResultOfLoad(k).parser = "json" /\ ~run.export.bom) =>
                    ResultOfLoad(k).exc = "ValueError"
              /\ ResultOfLoad(k).parser = "csv" => ResultOfLoad(k).exc = "none"
              /\ ResultOfLoad(k).parser = "csv" <=>
                    (run.export.ext = ".csv"
                     \/ (run.export.kind = "scalar" /\ run.export.ws = 0))
C14_Witness ==
    /\ Len(run.loads) = 1
    /\ run.export.kind = "scalar"
    /\ run.export.ext = ".json"
    /\ ResultOfLoad(1).exc = "none"
    /\ ResultOfLoad(1).parser = "csv"

\* the identifier of a row when a url column substitutes like a Link column
RowTweetId_reads_url(file, row) ==
    Strip(Or(RowGet(file, row, "id"), Or(RowGet(file, row, "tweet_id"), Or(RowGet(file, row, "ID"),
          _extract_tweet_id_from_url(
              Strip(Or(RowGet(file, row, "Link"),
                       Or(RowGet(file, row, "link"), RowGet(file, row, "url")))))))))
\* C15 as stated: the delimited-text parser returns a record for exactly the rows whose
\* identifier resolves from an identifier column or from the /status/<digits> segment
\* of a Link or url column, under that identifier.
C15_LinkOrUrlColumn ==
    \A k \in Loads :
        (ResultOfLoad(k).parser = "csv" /\ run.export.kind = "csv") =>
            {ResultOfLoad(k).bookmarks[i].id : i \in 1..Len(ResultOfLoad(k).bookmarks)}
                = {RowTweetId_reads_url(run.export, run.export.rows[i]) :
                      i \in 1..Len(run.export.rows)} \ {<<>>}

(***************************************************************************)
(* Claims about the chunk loop (SpecChunks)                                *)
(***************************************************************************)
RECURSIVE Concat(_)
Concat(lists) == IF lists = <<>> THEN <<>> ELSE Head(lists) \o Concat(Tail(lists))
IdsOf(list) == [i \in 1..Len(list) |-> list[i].id]
\* ceil(N / CHUNK_SIZE) consecutive chunks of at most CHUNK_SIZE records, all but the
\* last of exactly CHUNK_SIZE, whose concatenation is the list
IsPartition(chunks, bookmarks) ==
    /\ Len(chunks) * CHUNK_SIZE >= Len(bookmarks)
    /\ (Len(chunks) - 1) * CHUNK_SIZE < Len(bookmarks) \/ Len(chunks) = 0
    /\ \A c \in 1..Len(chunks) : Len(chunks[c]) >= 1 /\ Len(chunks[c]) <= CHUNK_SIZE
    /\ \A c \in 1..(Len(chunks) - 1) : Len(chunks[c]) = CHUNK_SIZE
    /\ Concat(chunks) = bookmarks
\* the calls of _summarize_chunk that returned so far were made for the chunks before
\* the current one, once each and in order: each appended the entries of its chunk
ReturnedCallsInOrder ==
    LET chunks == Chunks(summ.bookmarks)
        done == IF summ.pc = "chunk" THEN summ.chunk - 1 ELSE Len(chunks)
    IN  IdsOf(summ.all_summaries) = IdsOf(Concat(SubSeq(chunks, 1, done)))
\* a step in which the wrapper of _summarize_chunk ends by returning
ChunkCallReturns == summ.pc = "chunk" /\ retry.pc = "call" /\ summ'.pc # "raised" /\ summ' # summ
CallsInLog == Len(SelectSeq(retry.log, LAMBDA ev : ev.ev = "call"))
FailuresInLog == Len(SelectSeq(retry.log, LAMBDA ev : ev.ev = "call" /\ ~ev.ok))

\* C21: categorize_and_summarize partitions N records into ceil(N/20) consecutive chunks
\* of at most 20 records, all but the last of exactly 20, whose concatenation is the
\* input; every chunk gets its call in chunk order, the calls made for one chunk are its
\* failed attempts and the one that returns (exactly one without transport failure),
\* after which the loop moves to the next chunk; no call is made when N = 0.
C21_ChunkPartition ==
    /\ [](/\ IsPartition(Chunks(summ.bookmarks), summ.bookmarks)
          /\ summ.pc \in {"chunk", "map", "raised"}
          /\ summ.pc \in {"chunk", "map"} => ReturnedCallsInOrder
          /\ summ.pc = "chunk" => summ.chunk \in 1..Len(Chunks(summ.bookmarks))
          /\ Len(summ.bookmarks) = 0 => (summ.pc = "map" /\ retry = RetryIdle))
    /\ [][ChunkCallReturns =>
             /\ CallsInLog = FailuresInLog
             /\ IF summ.chunk = Len(Chunks(summ.bookmarks))
                THEN summ'.pc = "map" /\ retry' = RetryIdle
                ELSE summ'.pc = "chunk" /\ summ'.chunk = summ.chunk + 1
                     /\ retry' = SummarizeChunkRetry]_vars
C21_Witness ==
    /\ Len(summ.bookmarks) = 41
    /\ Len(Chunks(summ.bookmarks)) = 3
    /\ summ.pc = "map"
    /\ Len(summ.all_summaries) = 41

(***************************************************************************)
(* Claims about the notifier, checked under SpecNotify.                    *)
(***************************************************************************)
SendReturned == run.pc = "digest_cache" /\ ~run.dry_run
SentBlocks == Concat([i \in 1..Len(run.payloads) |-> run.payloads[i].blocks])

\* C24: send_to_slack never sends a message of more than 50 blocks; the messages sent,
\* concatenated in sending order, are a prefix of the block list while it sends and the
\* whole block list once it returned; a list of at most 50 blocks goes out as one message
\* without suffix; of N > 1 messages the i-th carries the suffix (i/N).
C24_MessageSplit ==
    /\ \A i \in 1..Len(run.payloads) :
          Len(run.payloads[i].blocks) <= MAX_BLOCKS_PER_MESSAGE
    /\ SentBlocks = PySlicePrefix(run.blocks, Len(SentBlocks))
    /\ SendReturned =>
          /\ SentBlocks = run.blocks
          /\ Len(run.blocks) <= MAX_BLOCKS_PER_MESSAGE => Len(run.payloads) = 1
          /\ IF Len(run.payloads) = 1 THEN run.payloads[1].part = <<>>
             ELSE \A i \in 1..Len(run.payloads) :
                     run.payloads[i].part = <<i, Len(run.payloads)>>
    /\ Len(run.blocks) <= MAX_BLOCKS_PER_MESSAGE => Len(run.payloads) <= 1
C24_Witness ==
    /\ SendReturned
    /\ Len(run.blocks) = 2 * (MAX_BLOCKS_PER_MESSAGE - 2) + 1
    /\ Len(run.payloads) = 3
    /\ run.payloads[3].part = <<3, 3>>

\* the texts of the digest that _truncate is applied to
TruncatedTexts ==
    UNION {{run.result[i].summary, run.result[i].enrichment_summary, run.result[i].bookmark.url} :
              i \in 1..Len(run.result)}
TruncateHolds(text, n) ==
    LET t == _truncate(text, n)
    IN  IF TextLen(text) <= n THEN t = text
        ELSE TextLen(t) <= n /\ t # <<>> /\ t[Len(t)] = EllipsisPiece

\* C25: every block of build_digest_blocks has a text of at most 3000 characters, and
\* _truncate(text, n) with n >= 1 returns text unchanged when it has at most n characters
\* and otherwise a string of at most n characters that ends with the ellipsis.
C25_Truncation ==
    /\ \A i \in 1..Len(run.blocks) : TextLen(run.blocks[i].text) <= 3000
    /\ \A text \in TruncatedTexts : \A n \in 1..MaxTruncateLen : TruncateHolds(text, n)
C25_Witness ==
    /\ run.pc = "send"
    /\ \E i \in 1..Len(run.blocks) :
          LET text == run.blocks[i].text
          IN  TextLen(text) = 3000 /\ ~text[Len(text)].whole
    /\ \E text \in TruncatedTexts :
          /\ TextLen(text) \in 2..MaxTruncateLen
          /\ _truncate(text, TextLen(text) - 1) # text
          /\ _truncate(text, TextLen(text)) = text

RolesAt(role) == {i \in 1..Len(run.blocks) : run.blocks[i].role = role}
PiecesOf(block, what) == SelectSeq(block.text, LAMBDA p : p.what = what)
RecordOf(id) == run.result[CHOOSE i \in 1..Len(run.result) : run.result[i].bookmark.id = id]
\* the records a block lists, in the order of their links
ListedRecords(block) ==
    LET links == PiecesOf(block, "link")
    IN  [k \in 1..Len(links) |-> RecordOf(links[k].id)]
MemberCount(block) ==
    Cardinality({i \in 1..Len(run.result) :
                    /\ run.result[i].importance = "normal"
                    /\ run.result[i].category = ListedRecords(block)[1].category})

\* C26: the header block is first and the footer last; high-tier blocks precede the
\* category blocks, which precede the single low-tier block; category blocks come by
\* member count descending and the records of a category block by like count descending;
\* a high-tier block lists at most 2 web-result links.
C26_BlockOrder ==
    run.blocks # <<>> =>
       /\ run.blocks[1].role = "header"
       /\ run.blocks[Len(run.blocks)].role = "footer"
       /\ \A h \in RolesAt("high") : \A c \in RolesAt("category") \cup RolesAt("low") : h < c
       /\ \A c \in RolesAt("category") : \A l \in RolesAt("low") : c < l
       /\ Cardinality(RolesAt("low")) <= 1
       /\ \A c, d \in RolesAt("category") :
             c < d => MemberCount(run.blocks[c]) >= MemberCount(run.blocks[d])
       /\ \A c \in RolesAt("category") :
             LET bms == ListedRecords(run.blocks[c])
             IN  \A i, j \in 1..Len(bms) :
                    i < j => bms[i].bookmark.like_count >= bms[j].bookmark.like_count
       /\ \A h \in RolesAt("high") : Len(PiecesOf(run.blocks[h], "web_link")) <= 2
C26_Witness ==
    /\ run.pc = "send"
    /\ Len(run.result) = 3
    /\ run.result[1].importance = "normal" /\ run.result[1].category = "Other"
    /\ run.result[2].importance = "normal" /\ run.result[2].category = "AI-Tech"
    /\ run.result[3].importance = "normal" /\ run.result[3].category = "AI-Tech"
    /\ run.result[2].bookmark.like_count < run.result[3].bookmark.like_count
    /\ IdsOf(PiecesOf(run.blocks[4], "link")) = <<NthId(3), NthId(2)>>
    /\ IdsOf(PiecesOf(run.blocks[5], "link")) = <<NthId(1)>>

TierRole(importance) ==
    IF importance = "high" THEN "high" ELSE IF importance = "normal" THEN "category" ELSE "low"
\* the places <<block, piece>> where the link of the record stands uncut
WholeLinks(id) ==
    UNION {{<<k, p>> : p \in {q \in 1..Len(run.blocks[k].text) :
                                   /\ run.blocks[k].text[q].what = "link"
                                   /\ run.blocks[k].text[q].id = id
                                   /\ run.blocks[k].text[q].whole}} :
              k \in 1..Len(run.blocks)}

\* C29: when every record has a tier in {high, normal, low}, every record is in the block
\* list exactly once: its link stands in exactly one block, a high-tier block of its own,
\* the block of its category, or the low-tier block.
C29_EveryRecordOnce ==
    (/\ run.pc = "send"
     /\ \A i \in 1..Len(run.result) : run.result[i].importance \in IMPORTANCE_LABEL)
    => \A i \in 1..Len(run.result) :
          LET places == WholeLinks(run.result[i].bookmark.id)
          IN  /\ Cardinality(places) = 1
              /\ \A pl \in places :
                    run.blocks[pl[1]].role = TierRole(run.result[i].importance)

(***************************************************************************)
(* Claims about consecutive runs, checked under SpecRuns.                  *)
(***************************************************************************)
AllRecords == load_bookmarks(run.export, CHOOSE net \in NetAnswers : TRUE).bookmarks
Filtered == run.pc \notin {"idle", "env", "load"} /\ run.env_ok

C30_DigestedInOneRun ==
    (run.processed_ids_file = PROCESSED_IDS_FILE /\ summ.pc = "done") =>
        DigestedIds \cap run.digested = {}

(***************************************************************************)
(* Claims about the watcher, checked under SpecWatcher.                    *)
(***************************************************************************)
\* C28 as stated: the hash of a CSV is recorded only after push_to_github returned True,
\* and push_to_github returns True only when the bookmarks.json converted from that CSV
\* is on the remote.
C28_RecordedMeansOnRemote ==
    /\ run.last_hash # <<>> => \E c \in WatchedCsvs : /\ run.last_hash = file_hash(c)
                                                      /\ run.hash_file = file_hash(c)
    /\ (run.called /\ run.success) =>
          /\ run.dest.csv = run.csv
          /\ run.remote = run.dest
====
